---- MODULE Spec2Model ----
(***************************************************************************)
(* Model of the download pipeline of kerbaras/mangas                       *)
(* (pkg/services Downloader: DownloadManga, DownloadChapter, sendProgress, *)
(* Close) as a state machine.                                              *)
(*                                                                         *)
(* One DownloadManga call runs as a main goroutine (pcMain) plus one       *)
(* worker goroutine per chapter (pc[c]).  The labels of pcMain and pc are  *)
(* the line numbers of the statement the goroutine executes next.          *)
(* The buffer of the progress channel holds one slot per buffered event;   *)
(* the Downloader never reads an event back, so the events themselves are  *)
(* recorded per chapter, in the order they are offered, in `offered`.      *)
(***************************************************************************)
EXTENDS Integers, Sequences, FiniteSets, TLC

\* ------------------------------------------------------------------ bounds
MaxChapters == 2    \* chapters of a batch in Spec
MaxPages == 1       \* page URLs the source returns for a chapter
MaxCalls == 2       \* DownloadManga calls made on the Downloader in SpecSeq
SeqChapters == 1    \* chapters of a batch in SpecSeq
PoolChapters == 4   \* chapters of a batch in SpecPool
CloseChapters == 1  \* chapters of a batch in SpecClose
LiveChapters == 2   \* chapters of a batch in SpecLive
ExtraSends == 2     \* direct sendProgress calls beyond the channel capacity
DirectPages == 2    \* page URLs the source returns for a chapter in SpecChapter
SharedPages == 1    \* page URLs the source returns for a chapter in SpecShared
E2EChapters == 2    \* chapters of the batch in SpecE2E
E2EPages == 3       \* page URLs the source returns for a chapter in SpecE2E
MaxSessions == 2    \* epub objects one EPubBuilder creates in SpecEPub
MaxImages == 2      \* images an EPubBuilder holds at a time in SpecEPub
MaxNameLen == 3     \* characters of a name handed to sanitizeFilename
TwinChapters == 2   \* chapters of the batch in SpecTwins
TwinPages == 1      \* page URLs the source returns for a chapter in SpecTwins
MaxUnits == 49      \* sides of a source image, in steps of 25 pixels
MaxQuarters == 8    \* contrast factors, in quarters
MaxStrip == 3       \* the height of a source image in SpecStrips
MaxSide == 3        \* the width of an image handed to sharpen
MaxFiles == 2       \* page image files of an input container in SpecExport
MaxContainers == 2  \* input containers of an export in SpecExport
MaxShort == 3       \* pages of a short input container in SpecOrdinals
MaxOver == 1        \* pages of a long input container beyond Multiplier

\* ------------------------------------------------------- program constants
SemCap == 3         \* semaphore := make(chan struct{}, 3)
ProgressCap == 100  \* progressChan: make(chan DownloadProgress, 100)
Multiplier == 1000  \* Index: img.ChapterIndex*1000 + img.PageIndex

Max(a, b) == IF a >= b THEN a ELSE b
Chapters == 1 .. Max(MaxChapters, Max(PoolChapters, Max(LiveChapters, E2EChapters)))

VARIABLES
    env,            \* the run's environment: batch/page/call limits, cover URLs
    mangaStatus,    \* manga.Status of the series object handed to DownloadManga
    repoStatus,     \* status of the series as persisted by repo.SaveManga
    repoLog,        \* the statuses repo.SaveManga has persisted, in order
    pcMain,         \* position of the goroutine running DownloadManga
    result,         \* what the last DownloadManga call returned
    batch,          \* len(chapters) of the call in flight
    calls,          \* DownloadManga calls started so far
    pc,             \* pc[c]: position of the worker goroutine of chapter c
    page,           \* page[c]: loop index i of the page loop
    total,          \* total[c]: len(pages) of chapter c
    semaphore,      \* number of slots taken in the semaphore channel
    errorChan,      \* chapters whose error is buffered in errorChan
    rateLimiterC,   \* ticks buffered in rateLimiter.C
    rateLimiterStopped,
    progressChan,   \* buffer of progressChan
    progressClosed, \* progressChan has been closed
    panicked,       \* the process died of a run-time panic
    invoked,        \* invoked[c]: DownloadChapter invocations for chapter c
    failed,         \* failed[c]: DownloadChapter returned an error
    offered,        \* offered[c]: events handed to sendProgress, in order
    savedDownloading, \* the SaveManga of line 72 has returned nil in this call
    resolved,       \* the chapter list of this call is resolved
    finalSave,      \* the SaveManga of line 124: <<status, ok>> or <<>>
    closeReturned,  \* a call of Close has returned
    sendCalls,      \* direct sendProgress calls made (SpecProgress)
    chapter,        \* chapter[c]: Downloaded and FilePath of the chapter object
    repoChapter,    \* repoChapter[c]: the chapter's record in the repository
    log,            \* log[c]: what the invocation for chapter c did, in order
    builder,        \* an EPubBuilder: its fields
    container,      \* the container file the last builder call wrote, if any
    returned,       \* what the last call of a builder method returned
    scratch,        \* the temporary directories of the builder that exist
    calc            \* a call of a pure function: its arguments and its result

vars == << env, mangaStatus, repoStatus, repoLog, pcMain, result, batch, calls,
           pc, page, total, semaphore, errorChan, rateLimiterC, rateLimiterStopped,
           progressChan, progressClosed, panicked, invoked, failed, offered,
           savedDownloading, resolved, finalSave, closeReturned, sendCalls,
           chapter, repoChapter, log, builder, container, returned, scratch,
           calc >>

mainVars == << mangaStatus, repoStatus, repoLog, pcMain, result, batch, calls,
               savedDownloading, resolved, finalSave >>
workerVars == << pc, page, total, invoked, failed >>
limiterVars == << rateLimiterC, rateLimiterStopped >>
chanVars == << progressChan, progressClosed, closeReturned, sendCalls >>
chapterVars == << chapter, repoChapter, log >>
builderVars == << builder, container, returned, scratch >>
libVars == << builder, container, returned, scratch, calc >>
downloaderVars == << env, mainVars, workerVars, limiterVars, chanVars, chapterVars,
                     semaphore, errorChan, panicked, offered >>

\* ------------------------------------- EPubBuilder: file names and titles
\* A string is the sequence of its characters; a literal of the code that
\* holds none of the characters looked at below is one element.
\* Lines 397-401: the characters strings.ReplaceAll replaces by "_".
InvalidChars == {"/", "\\", ":", "*", "?", "\"", "<", ">", "|"}

\* The characters strings.TrimSpace removes from the ends (of those in use).
WhiteSpace == {" ", "\t", "\n"}

ReplaceInvalid(name) ==
    [i \in 1 .. Len(name) |-> IF name[i] \in InvalidChars THEN "_" ELSE name[i]]

\* strings.TrimLeft, strings.TrimRight and strings.Trim with a set of characters.
RECURSIVE TrimLeft(_, _)
TrimLeft(str, cutset) ==
    IF str # << >> /\ Head(str) \in cutset THEN TrimLeft(Tail(str), cutset) ELSE str

RECURSIVE TrimRight(_, _)
TrimRight(str, cutset) ==
    IF str # << >> /\ str[Len(str)] \in cutset
      THEN TrimRight(SubSeq(str, 1, Len(str) - 1), cutset)
      ELSE str

Trim(str, cutset) == TrimRight(TrimLeft(str, cutset), cutset)

\* Lines 395-406: replace, then strings.TrimSpace, then strings.Trim(".").
sanitizeFilename(name) == Trim(Trim(ReplaceInvalid(name), WhiteSpace), {"."})

\* data.Chapter as far as the builder reads it.
ChapterArg(number, volume, title) ==
    [Number |-> number, Volume |-> volume, Title |-> title]

\* A title that leaves out the volume only when there is none.
chapterTitleAnyVolume(ch) ==
    (IF ch.Volume # << >> THEN << "Vol. " >> \o ch.Volume \o << ", " >> ELSE << >>)
    \o << "Chapter " >> \o ch.Number
    \o (IF ch.Title # << >> THEN << ": " >> \o ch.Title ELSE << >>)

\* Lines 229-235: the title of the chapter section.
chapterTitle(ch) ==
    (IF ch.Volume # << >> /\ ch.Volume # << "0" >>
       THEN << "Vol. " >> \o ch.Volume \o << ", " >> ELSE << >>)
    \o << "Chapter " >> \o ch.Number
    \o (IF ch.Title # << >> THEN << ": " >> \o ch.Title ELSE << >>)

\* The series every chapter belongs to, and the directory of the containers.
SeriesName == << "S" >>
outputDir == << "out/" >>

\* Lines 305-307: the path of the container, from the series name and the
\* chapter's Number.
outputPath(name, ch) ==
    outputDir \o sanitizeFilename(name) \o << "_" >>
    \o sanitizeFilename(<< "ch_" >> \o ch.Number) \o << ".epub" >>

\* The Number of chapter c of the series when no two chapters share one.
ChapterTags == << "1", "2", "3", "4", "5", "6", "7", "8", "9" >>
OwnNumbers == [c \in Chapters |-> << ChapterTags[c] >>]

\* NewEPubBuilder (lines 112-125): no epub, no image. `made` counts the epub
\* objects created so far; the epub of a session is known by its number.
\* `open` tells that Init has succeeded and Done has not since, `written`
\* counts the calls of Done that succeeded.
NewEPubBuilder ==
    [epub |-> << >>, made |-> 0, manga |-> << >>, chapter |-> << >>,
     images |-> << >>, mangaCover |-> << >>, chapterCover |-> << >>,
     tempDir |-> << >>, open |-> FALSE, written |-> 0]

\* What a builder method returns: the error (ok is FALSE) and Done's path.
Return(op, ok, path) == [op |-> op, ok |-> ok, path |-> path]

\* No call of a pure function.
NoCall == [fn |-> "none", args |-> << >>, result |-> << >>, done |-> FALSE]

\* ------------------------------------------------------------ sendProgress
\* The slot a buffered event of a download occupies, and an event left in
\* the buffer by an earlier batch.
Slot == "event"
Stale == "stale"

\* DownloadProgress, without the series id and the chapter number (one series;
\* the chapter is the index of offered).
Progress(status, cur, tot) ==
    [Status |-> status, CurrentPage |-> cur, TotalPages |-> tot]

\* A plain channel send: waits for a free slot.
sendBlocking(ch) == Len(ch) < ProgressCap

\* select { case d.progressChan <- progress: default: } is ready to run
\* whatever the buffer holds: the default arm is taken when the send is not.
sendProgressReady(ch) == TRUE

\* A ring buffer that overwrites its oldest entry when full.
sendOverwrite(ch, ev) ==
    IF Len(ch) < ProgressCap THEN Append(ch, ev) ELSE Append(Tail(ch), ev)

\* The buffer after sendProgress on an open channel: the event is buffered when
\* a slot is free and skipped otherwise.
sendProgress(ch, ev) ==
    IF Len(ch) < ProgressCap THEN Append(ch, ev) ELSE ch

\* The process runs: no goroutine has panicked.
Live == ~panicked

\* The collaborator calls that can fail, and the outcomes of a call in this
\* run: nil (TRUE), or an error (FALSE) where the environment lets it fail.
Collaborators ==
    {"SaveManga", "GetChapters", "GetPages", "Init", "Get", "Next", "Done",
     "UpdateChapterStatus"}
Outcomes(call) == IF call \in env.faults THEN BOOLEAN ELSE {TRUE}

\* One entry of log[c]: the operation, the page URL it is about (its position
\* in the page list, 0 if none), the number it carries (the index of a page,
\* the length of a page list, 1 for a cover URL to fetch) and its success.
Op(op, url, n, ok) == [op |-> op, url |-> url, n |-> n, ok |-> ok]

\* The invocation for chapter c does ops, recorded in the runs that keep a log.
Logged(c, ops) == log' = [log EXCEPT ![c] = IF env.trace THEN @ \o ops ELSE @]

\* data.Chapter as far as the Downloader writes it; the path of the container
\* builder.Done() wrote for chapter c, made from the chapter's Number.
ChapterRecord(downloaded, path) == [Downloaded |-> downloaded, FilePath |-> path]
NoPath == << >>
EpubPath(c) == outputPath(SeriesName, ChapterArg(env.numbers[c], << >>, << >>))

\* Worker c offers event p: sendProgress(p). A send on a closed channel
\* panics, also inside a select.
Offer(c, p) ==
    /\ sendProgressReady(progressChan)
    /\ offered' = [offered EXCEPT ![c] = Append(@, p)]
    /\ IF progressClosed
         THEN /\ panicked' = TRUE
              /\ UNCHANGED progressChan
         ELSE /\ progressChan' = sendProgress(progressChan, Slot)
              /\ UNCHANGED panicked
    /\ UNCHANGED << progressClosed, closeReturned, sendCalls >>

\* Where worker c goes after a sendProgress: nowhere if the send panicked.
AfterSend(c, label) ==
    pc' = [pc EXCEPT ![c] = IF progressClosed THEN @ ELSE label]

\* --------------------------------------------------------- DownloadManga
NoChapter == [c \in Chapters |-> "none"]

\* Lines 119-123: the status of the series after the batch.
FinalStatus(errs) == IF errs # {} THEN "partial" ELSE "completed"

\* Returning the collected chapter errors to the caller.
ReturnAggregate(errs) == IF errs # {} THEN "err" ELSE "nil"

\* Line 126: return nil, whatever downloadErrors holds.
DownloadMangaReturn(errs) == "nil"

\* What a new call resets: the goroutines and the bookkeeping of the last call.
StartCall(n) ==
    /\ calls' = calls + 1
    /\ batch' = n
    /\ pc' = NoChapter
    /\ page' = [c \in Chapters |-> 0]
    /\ total' = [c \in Chapters |-> 0]
    /\ invoked' = [c \in Chapters |-> 0]
    /\ failed' = [c \in Chapters |-> FALSE]
    /\ offered' = [c \in Chapters |-> << >>]
    /\ log' = [c \in Chapters |-> << >>]
    /\ semaphore' = 0
    /\ errorChan' = {}
    /\ savedDownloading' = FALSE
    /\ resolved' = FALSE
    /\ finalSave' = << >>

\* Lines 65-68: DownloadManga(nil, chapters) fails at once.
DownloadMangaNil ==
    /\ Live /\ pcMain = "idle" /\ calls < env.maxCalls
    /\ StartCall(0)
    /\ result' = "err"
    /\ UNCHANGED << pcMain, mangaStatus, repoStatus, repoLog, env, panicked >>
    /\ UNCHANGED << limiterVars, chanVars >>
    /\ UNCHANGED << chapter, repoChapter >>
    /\ UNCHANGED libVars

\* Line 65: DownloadManga(manga, chapters) with n chapters (0: none given).
DownloadManga(n) ==
    /\ Live /\ pcMain = "idle" /\ calls < env.maxCalls
    /\ StartCall(n)
    /\ pcMain' = "L71"
    /\ result' = "none"
    /\ UNCHANGED << mangaStatus, repoStatus, repoLog, env, panicked >>
    /\ UNCHANGED << limiterVars, chanVars >>
    /\ UNCHANGED << chapter, repoChapter >>
    /\ UNCHANGED libVars

\* A DownloadManga that starts the batch without persisting "downloading".
SkipSaveDownloading ==
    /\ Live /\ pcMain = "L71"
    /\ mangaStatus' = "downloading"
    /\ pcMain' = "L77"
    /\ UNCHANGED << repoStatus, repoLog, savedDownloading, result, batch, calls, resolved,
                    finalSave, env, panicked, semaphore, errorChan, offered >>
    /\ UNCHANGED << workerVars, limiterVars, chanVars >>
    /\ UNCHANGED chapterVars
    /\ UNCHANGED libVars

\* Lines 71-74: manga.Status = "downloading"; SaveManga; return on its error.
SaveDownloading ==
    /\ Live /\ pcMain = "L71"
    /\ mangaStatus' = "downloading"
    /\ \E ok \in Outcomes("SaveManga") :
         IF ok
           THEN /\ repoStatus' = "downloading"
                /\ repoLog' = Append(repoLog, "downloading")
                /\ savedDownloading' = TRUE
                /\ pcMain' = "L77"
                /\ UNCHANGED result
           ELSE /\ pcMain' = "idle"
                /\ result' = "err"
                /\ UNCHANGED << repoStatus, repoLog, savedDownloading >>
    /\ UNCHANGED << batch, calls, resolved, finalSave, env, panicked, semaphore,
                    errorChan, offered >>
    /\ UNCHANGED << workerVars, limiterVars, chanVars >>
    /\ UNCHANGED chapterVars
    /\ UNCHANGED libVars

\* Lines 77-83: the chapter list: the one given, or source.GetChapters, whose
\* error is returned.
ResolveChapters ==
    /\ Live /\ pcMain = "L77"
    /\ IF batch > 0
         THEN /\ resolved' = TRUE
              /\ pcMain' = "L90"
              /\ UNCHANGED << batch, result >>
         ELSE \E ok \in Outcomes("GetChapters"), r \in 0 .. env.maxChapters :
                IF ~ok
                  THEN /\ pcMain' = "idle"
                       /\ result' = "err"
                       /\ UNCHANGED << batch, resolved >>
                  ELSE /\ batch' = r
                       /\ resolved' = TRUE
                       /\ pcMain' = "L90"
                       /\ UNCHANGED result
    /\ UNCHANGED << mangaStatus, repoStatus, repoLog, calls, savedDownloading, finalSave,
                    env, panicked, semaphore, errorChan, offered >>
    /\ UNCHANGED << workerVars, limiterVars, chanVars >>
    /\ UNCHANGED chapterVars
    /\ UNCHANGED libVars

\* Lines 86-108: the semaphore, errorChan and one goroutine per chapter.
SpawnWorkers ==
    /\ Live /\ pcMain = "L90"
    /\ pc' = [c \in Chapters |-> IF c <= batch THEN "spawned" ELSE "none"]
    /\ semaphore' = 0
    /\ errorChan' = {}
    /\ pcMain' = "L110"
    /\ UNCHANGED << mangaStatus, repoStatus, repoLog, result, batch, calls,
                    savedDownloading, resolved, finalSave, env, panicked, offered,
                    page, total, invoked, failed >>
    /\ UNCHANGED << limiterVars, chanVars >>
    /\ UNCHANGED chapterVars
    /\ UNCHANGED libVars

\* A DownloadManga that does not wait for its workers.
NoWaitWorkers ==
    /\ Live /\ pcMain = "L110"
    /\ mangaStatus' = FinalStatus(errorChan)
    /\ pcMain' = "L124"
    /\ UNCHANGED << repoStatus, repoLog, result, batch, calls, savedDownloading, resolved,
                    finalSave, env, panicked, semaphore, errorChan, offered >>
    /\ UNCHANGED << workerVars, limiterVars, chanVars >>
    /\ UNCHANGED chapterVars
    /\ UNCHANGED libVars

\* Lines 110-123: wg.Wait(), drain errorChan, set manga.Status.
WaitWorkers ==
    /\ Live /\ pcMain = "L110"
    /\ \A c \in 1 .. batch : pc[c] = "done"
    /\ mangaStatus' = FinalStatus(errorChan)
    /\ pcMain' = "L124"
    /\ UNCHANGED << repoStatus, repoLog, result, batch, calls, savedDownloading, resolved,
                    finalSave, env, panicked, semaphore, errorChan, offered >>
    /\ UNCHANGED << workerVars, limiterVars, chanVars >>
    /\ UNCHANGED chapterVars
    /\ UNCHANGED libVars

\* Lines 124-126: d.repo.SaveManga(manga), its error ignored; return nil.
SaveFinal ==
    /\ Live /\ pcMain = "L124"
    /\ \E ok \in Outcomes("SaveManga") :
         /\ repoStatus' = IF ok THEN mangaStatus ELSE repoStatus
         /\ repoLog' = IF ok THEN Append(repoLog, mangaStatus) ELSE repoLog
         /\ finalSave' = << mangaStatus, ok >>
    /\ result' = DownloadMangaReturn(errorChan)
    /\ pcMain' = "idle"
    /\ UNCHANGED << mangaStatus, batch, calls, savedDownloading, resolved, env,
                    panicked, semaphore, errorChan, offered >>
    /\ UNCHANGED << workerVars, limiterVars, chanVars >>
    /\ UNCHANGED chapterVars
    /\ UNCHANGED libVars

\* ------------------------------------------------- the worker goroutines
\* What a step of worker c that sends no event leaves alone.
WorkerFrame ==
    /\ UNCHANGED << mainVars, limiterVars, chanVars, env, panicked, offered >>

\* What a sendProgress step of worker c leaves alone.
SendFrame ==
    /\ UNCHANGED << mainVars, limiterVars, env, page, total, invoked, failed,
                    semaphore, errorChan >>

\* Where DownloadChapter returns to: the goroutine DownloadManga started for
\* the chapter (line 98 with an error, the deferred calls of line 95 without),
\* or the caller of a direct call.
ReturnTo(c, ok) ==
    IF c \in 1 .. batch THEN (IF ok THEN "L95" ELSE "L98") ELSE "returned"

\* DownloadChapter returns an error (to the goroutine: line 97).
Fail(c) ==
    /\ pc' = [pc EXCEPT ![c] = ReturnTo(c, FALSE)]
    /\ failed' = [failed EXCEPT ![c] = TRUE]

\* A goroutine that gives up when a sibling has already failed.
AcquireUnlessSiblingFailed(c) ==
    /\ Live /\ pc[c] = "spawned"
    /\ semaphore < SemCap
    /\ IF errorChan # {}
         THEN /\ pc' = [pc EXCEPT ![c] = "done"]
              /\ UNCHANGED << semaphore, invoked >>
         ELSE /\ semaphore' = semaphore + 1
              /\ invoked' = [invoked EXCEPT ![c] = @ + 1]
              /\ pc' = [pc EXCEPT ![c] = "L138"]
    /\ UNCHANGED << page, total, failed, errorChan >>
    /\ WorkerFrame
    /\ UNCHANGED chapterVars
    /\ UNCHANGED libVars

\* A goroutine that enters DownloadChapter without taking a semaphore slot.
AcquireUnbounded(c) ==
    /\ Live /\ pc[c] = "spawned"
    /\ semaphore' = semaphore + 1
    /\ invoked' = [invoked EXCEPT ![c] = @ + 1]
    /\ pc' = [pc EXCEPT ![c] = "L138"]
    /\ UNCHANGED << page, total, failed, errorChan >>
    /\ WorkerFrame
    /\ Logged(c, << Op("DownloadChapter", 0, 0, TRUE) >>)
    /\ UNCHANGED << chapter, repoChapter >>
    /\ UNCHANGED libVars

\* Lines 94-97 and 130-136: semaphore <- struct{}{} waits for a free slot;
\* then DownloadChapter is entered (series and chapter are not nil).
Acquire(c) ==
    /\ Live /\ pc[c] = "spawned"
    /\ semaphore < SemCap
    /\ semaphore' = semaphore + 1
    /\ invoked' = [invoked EXCEPT ![c] = @ + 1]
    /\ pc' = [pc EXCEPT ![c] = "L138"]
    /\ UNCHANGED << page, total, failed, errorChan >>
    /\ WorkerFrame
    /\ Logged(c, << Op("DownloadChapter", 0, 0, TRUE) >>)
    /\ UNCHANGED << chapter, repoChapter >>
    /\ UNCHANGED libVars

\* What DownloadChapter can be handed for the series and for the chapter.
Args == {"nil", "set"}

\* A DownloadChapter that waits for its permit before it looks at its arguments.
DownloadChapterPermitFirst(c, mangaArg, chapterArg) ==
    /\ Live /\ pcMain = "idle" /\ batch = 0
    /\ c <= env.maxChapters /\ pc[c] = "none"
    /\ rateLimiterC > 0
    /\ rateLimiterC' = rateLimiterC - 1
    /\ invoked' = [invoked EXCEPT ![c] = @ + 1]
    /\ Logged(c, << Op("DownloadChapter", 0, 0,
                       mangaArg = "set" /\ chapterArg = "set"),
                    Op("permit", 0, 0, TRUE) >>)
    /\ IF mangaArg = "nil" \/ chapterArg = "nil"
         THEN Fail(c)
         ELSE /\ pc' = [pc EXCEPT ![c] = "L140"]
              /\ UNCHANGED failed
    /\ UNCHANGED << page, total, semaphore, errorChan, chapter, repoChapter,
                    rateLimiterStopped >>
    /\ UNCHANGED << mainVars, chanVars, env, panicked, offered >>
    /\ UNCHANGED libVars

\* Lines 130-136, called directly (as MangaController.DownloadChapter and the
\* package's tests do) for chapter c: an error at once when the series or the
\* chapter is nil.
DownloadChapter(c, mangaArg, chapterArg) ==
    /\ Live /\ pcMain = "idle" /\ batch = 0
    /\ c <= env.maxChapters /\ pc[c] = "none"
    /\ invoked' = [invoked EXCEPT ![c] = @ + 1]
    /\ Logged(c, << Op("DownloadChapter", 0, 0,
                       mangaArg = "set" /\ chapterArg = "set") >>)
    /\ IF mangaArg = "nil" \/ chapterArg = "nil"
         THEN Fail(c)
         ELSE /\ pc' = [pc EXCEPT ![c] = "L138"]
              /\ UNCHANGED failed
    /\ UNCHANGED << page, total, semaphore, errorChan, chapter, repoChapter >>
    /\ WorkerFrame
    /\ UNCHANGED libVars

PermitWaits == {"L138", "L171", "L182", "L214"}

\* A page loop that ends one page early.
AfterPermitSkipLast(c) ==
    CASE pc[c] = "L138" -> "L140"
      [] pc[c] = "L171" -> "L175"
      [] pc[c] = "L182" -> "L185"
      [] pc[c] = "L214" -> IF page[c] + 2 < total[c] THEN "L195" ELSE "L218"

\* Where a worker goes once it has its permit.
AfterPermit(c) ==
    CASE pc[c] = "L138" -> "L140"
      [] pc[c] = "L171" -> "L175"
      [] pc[c] = "L182" -> "L185"
      [] pc[c] = "L214" -> IF page[c] + 1 < total[c] THEN "L195" ELSE "L218"

\* A limiter that lets a worker pass on a tick and leaves the tick to others.
WaitPermitKeepTick(c) ==
    /\ Live /\ pc[c] \in PermitWaits
    /\ rateLimiterC > 0
    /\ pc' = [pc EXCEPT ![c] = AfterPermit(c)]
    /\ page' = [page EXCEPT ![c] = IF pc[c] = "L214" THEN @ + 1 ELSE @]
    /\ UNCHANGED << rateLimiterC, rateLimiterStopped, total, invoked, failed,
                    semaphore, errorChan >>
    /\ UNCHANGED << mainVars, chanVars, env, panicked, offered >>
    /\ Logged(c, << Op("permit", 0, 0, TRUE) >>)
    /\ UNCHANGED << chapter, repoChapter >>
    /\ UNCHANGED libVars

\* Lines 138, 171, 182, 214: <-d.rateLimiter.C waits for a tick and takes it.
WaitPermit(c) ==
    /\ Live /\ pc[c] \in PermitWaits
    /\ rateLimiterC > 0
    /\ rateLimiterC' = rateLimiterC - 1
    /\ pc' = [pc EXCEPT ![c] = AfterPermit(c)]
    /\ page' = [page EXCEPT ![c] = IF pc[c] = "L214" THEN @ + 1 ELSE @]
    /\ UNCHANGED << rateLimiterStopped, total, invoked, failed, semaphore,
                    errorChan >>
    /\ UNCHANGED << mainVars, chanVars, env, panicked, offered >>
    /\ Logged(c, << Op("permit", 0, 0, TRUE) >>)
    /\ UNCHANGED << chapter, repoChapter >>
    /\ UNCHANGED libVars

\* Lines 140-145: the first "downloading" event.
SendStarted(c) ==
    /\ Live /\ pc[c] = "L140"
    /\ Offer(c, Progress("downloading", 0, 0))
    /\ AfterSend(c, "L148")
    /\ SendFrame
    /\ UNCHANGED chapterVars
    /\ UNCHANGED libVars

\* Lines 148-155: source.GetPages; its error or an empty list ends the chapter.
GetPages(c) ==
    /\ Live /\ pc[c] = "L148"
    /\ \E ok \in Outcomes("GetPages"), r \in 0 .. env.maxPages :
         /\ Logged(c, << Op("GetPages", 0, IF ok THEN r ELSE 0, ok) >>)
         /\ IF ~ok \/ r = 0
              THEN /\ Fail(c)
                   /\ UNCHANGED total
              ELSE /\ total' = [total EXCEPT ![c] = r]
                   /\ pc' = [pc EXCEPT ![c] = "L159"]
                   /\ UNCHANGED failed
    /\ UNCHANGED << page, invoked, semaphore, errorChan >>
    /\ WorkerFrame
    /\ UNCHANGED << chapter, repoChapter >>
    /\ UNCHANGED libVars

\* Lines 158-161: NewEPubBuilder and builder.Init, which can fail.
InitBuilder(c) ==
    /\ Live /\ pc[c] = "L159"
    /\ \E ok \in Outcomes("Init") :
         /\ Logged(c, << Op("Init", 0, 0, ok) >>)
         /\ IF ok
              THEN /\ pc' = [pc EXCEPT ![c] = "L164"]
                   /\ UNCHANGED failed
              ELSE Fail(c)
    /\ UNCHANGED << page, total, invoked, semaphore, errorChan >>
    /\ WorkerFrame
    /\ UNCHANGED << chapter, repoChapter >>
    /\ UNCHANGED libVars

\* How a cover attempt goes: the URL lookup fails; it gives no URL to fetch
\* (an empty one or, for the chapter cover, the URL of the series cover); the
\* fetch fails; the builder refuses the image (empty content); the cover is
\* attached.
CoverAnswers ==
    IF env.covers
      THEN {"urlerr", "nourl", "fetchfailed", "attachfailed", "attached"}
      ELSE {"nourl"}

\* A cover attempt fetches: the lookup gave a URL to fetch.
CoverFetched(r) == r \in {"fetchfailed", "attachfailed", "attached"}

\* What a cover attempt does: the lookup, then the fetch when there is a URL,
\* then SetMangaCover or SetChapterCover when the fetch succeeded.
CoverOps(lookup, attach, r) ==
    << Op(lookup, 0, IF CoverFetched(r) THEN 1 ELSE 0, r # "urlerr") >>
    \o (IF CoverFetched(r) THEN << Op("GetCover", 0, 0, r # "fetchfailed") >> ELSE << >>)
    \o (IF r \in {"attachfailed", "attached"}
          THEN << Op(attach, 0, 0, r = "attached") >> ELSE << >>)

\* A DownloadChapter that gives up when the series cover cannot be fetched.
MangaCoverFatal(c) ==
    /\ Live /\ pc[c] = "L164"
    /\ \E r \in CoverAnswers :
         /\ Logged(c, CoverOps("GetMangaCoverURL", "SetMangaCover", r))
         /\ IF r = "fetchfailed"
              THEN Fail(c)
              ELSE /\ pc' = [pc EXCEPT ![c] = IF CoverFetched(r) THEN "L171" ELSE "L175"]
                   /\ UNCHANGED failed
    /\ UNCHANGED << page, total, invoked, semaphore, errorChan >>
    /\ WorkerFrame
    /\ UNCHANGED << chapter, repoChapter >>
    /\ UNCHANGED libVars

\* Lines 164-170: the series cover; nothing here fails the chapter.
MangaCover(c) ==
    /\ Live /\ pc[c] = "L164"
    /\ \E r \in CoverAnswers :
         /\ pc' = [pc EXCEPT ![c] = IF CoverFetched(r) THEN "L171" ELSE "L175"]
         /\ Logged(c, CoverOps("GetMangaCoverURL", "SetMangaCover", r))
    /\ UNCHANGED << page, total, invoked, failed, semaphore, errorChan >>
    /\ WorkerFrame
    /\ UNCHANGED << chapter, repoChapter >>
    /\ UNCHANGED libVars

\* Lines 175-181: the chapter cover, skipped when its URL is that of the
\* series cover.
ChapterCover(c) ==
    /\ Live /\ pc[c] = "L175"
    /\ \E r \in CoverAnswers :
         /\ pc' = [pc EXCEPT ![c] = IF CoverFetched(r) THEN "L182" ELSE "L185"]
         /\ Logged(c, CoverOps("GetChapterCoverURL", "SetChapterCover", r))
    /\ UNCHANGED << page, total, invoked, failed, semaphore, errorChan >>
    /\ WorkerFrame
    /\ UNCHANGED << chapter, repoChapter >>
    /\ UNCHANGED libVars

\* A DownloadChapter that announces "processing" before the page loop.
SendTotalAsProcessing(c) ==
    /\ Live /\ pc[c] = "L185"
    /\ Offer(c, Progress("processing", 0, total[c]))
    /\ AfterSend(c, "L195")
    /\ SendFrame
    /\ UNCHANGED chapterVars
    /\ UNCHANGED libVars

\* Lines 185-191: the "downloading" event with the page total.
SendTotal(c) ==
    /\ Live /\ pc[c] = "L185"
    /\ Offer(c, Progress("downloading", 0, total[c]))
    /\ AfterSend(c, "L195")
    /\ SendFrame
    /\ UNCHANGED chapterVars
    /\ UNCHANGED libVars

\* Lines 195-202: the "downloading" event of page i + 1.
SendPage(c) ==
    /\ Live /\ pc[c] = "L195"
    /\ Offer(c, Progress("downloading", page[c] + 1, total[c]))
    /\ AfterSend(c, "L204")
    /\ SendFrame
    /\ UNCHANGED chapterVars
    /\ UNCHANGED libVars

\* A page loop that carries on with the next page when a fetch fails.
FetchPageSkipFailed(c) ==
    /\ Live /\ pc[c] = "L204"
    /\ \E ok \in Outcomes("Get") :
         /\ Logged(c, << Op("Get", page[c] + 1, page[c], ok) >>)
         /\ pc' = [pc EXCEPT ![c] = IF ok THEN "L210" ELSE "L214"]
    /\ UNCHANGED << page, total, invoked, failed, semaphore, errorChan >>
    /\ WorkerFrame
    /\ UNCHANGED << chapter, repoChapter >>
    /\ UNCHANGED libVars

\* Lines 204-207: downloadImage(pageURL, i); its error ends the chapter.
FetchPage(c) ==
    /\ Live /\ pc[c] = "L204"
    /\ \E ok \in Outcomes("Get") :
         /\ Logged(c, << Op("Get", page[c] + 1, page[c], ok) >>)
         /\ IF ok
              THEN /\ pc' = [pc EXCEPT ![c] = "L210"]
                   /\ UNCHANGED failed
              ELSE Fail(c)
    /\ UNCHANGED << page, total, invoked, semaphore, errorChan >>
    /\ WorkerFrame
    /\ UNCHANGED << chapter, repoChapter >>
    /\ UNCHANGED libVars

\* Lines 210-212: builder.Next(imageData), which rejects an empty image.
BuilderNext(c) ==
    /\ Live /\ pc[c] = "L210"
    /\ \E ok \in Outcomes("Next") :
         /\ Logged(c, << Op("Next", page[c] + 1, page[c], ok) >>)
         /\ IF ok
              THEN /\ pc' = [pc EXCEPT ![c] = "L214"]
                   /\ UNCHANGED failed
              ELSE Fail(c)
    /\ UNCHANGED << page, total, invoked, semaphore, errorChan >>
    /\ WorkerFrame
    /\ UNCHANGED << chapter, repoChapter >>
    /\ UNCHANGED libVars

\* Lines 218-224: the "processing" event.
SendProcessing(c) ==
    /\ Live /\ pc[c] = "L218"
    /\ Offer(c, Progress("processing", 0, total[c]))
    /\ AfterSend(c, "L226")
    /\ SendFrame
    /\ UNCHANGED chapterVars
    /\ UNCHANGED libVars

\* Lines 226-229: builder.Done(), which can fail.
BuilderDone(c) ==
    /\ Live /\ pc[c] = "L226"
    /\ \E ok \in Outcomes("Done") :
         /\ Logged(c, << Op("Done", 0, 0, ok) >>)
         /\ IF ok
              THEN /\ pc' = [pc EXCEPT ![c] = "L232"]
                   /\ UNCHANGED failed
              ELSE Fail(c)
    /\ UNCHANGED << page, total, invoked, semaphore, errorChan >>
    /\ WorkerFrame
    /\ UNCHANGED << chapter, repoChapter >>
    /\ UNCHANGED libVars

\* A DownloadChapter that carries on when repo.UpdateChapterStatus fails.
UpdateChapterStatusIgnoreError(c) ==
    /\ Live /\ pc[c] = "L232"
    /\ chapter' = [chapter EXCEPT ![c] = ChapterRecord(TRUE, EpubPath(c))]
    /\ \E ok \in Outcomes("UpdateChapterStatus") :
         /\ Logged(c, << Op("UpdateChapterStatus", 0, 0, ok) >>)
         /\ repoChapter' =
              [repoChapter EXCEPT
                 ![c] = IF ok THEN ChapterRecord(TRUE, EpubPath(c)) ELSE @]
         /\ pc' = [pc EXCEPT ![c] = "L238"]
         /\ UNCHANGED failed
    /\ UNCHANGED << page, total, invoked, semaphore, errorChan >>
    /\ WorkerFrame
    /\ UNCHANGED libVars

\* Lines 232-236: repo.UpdateChapterStatus, which can fail.
UpdateChapterStatus(c) ==
    /\ Live /\ pc[c] = "L232"
    /\ chapter' = [chapter EXCEPT ![c] = ChapterRecord(TRUE, EpubPath(c))]
    /\ \E ok \in Outcomes("UpdateChapterStatus") :
         /\ Logged(c, << Op("UpdateChapterStatus", 0, 0, ok) >>)
         /\ IF ok
              THEN /\ repoChapter' =
                        [repoChapter EXCEPT ![c] = ChapterRecord(TRUE, EpubPath(c))]
                   /\ pc' = [pc EXCEPT ![c] = "L238"]
                   /\ UNCHANGED failed
              ELSE /\ Fail(c)
                   /\ UNCHANGED repoChapter
    /\ UNCHANGED << page, total, invoked, semaphore, errorChan >>
    /\ WorkerFrame
    /\ UNCHANGED libVars

\* Lines 238-246: the "complete" event; DownloadChapter returns nil.
SendComplete(c) ==
    /\ Live /\ pc[c] = "L238"
    /\ Offer(c, Progress("complete", 0, total[c]))
    /\ AfterSend(c, ReturnTo(c, TRUE))
    /\ SendFrame
    /\ UNCHANGED chapterVars
    /\ UNCHANGED libVars

\* A goroutine that records the error and sends no "error" event.
SendErrorSilent(c) ==
    /\ Live /\ pc[c] = "L98"
    /\ errorChan' = errorChan \cup {c}
    /\ pc' = [pc EXCEPT ![c] = "L95"]
    /\ UNCHANGED << page, total, invoked, failed, semaphore >>
    /\ WorkerFrame
    /\ UNCHANGED chapterVars
    /\ UNCHANGED libVars

\* Line 98: errorChan <- err; errorChan has a slot per chapter.
SendError(c) ==
    /\ Live /\ pc[c] = "L98"
    /\ errorChan' = errorChan \cup {c}
    /\ pc' = [pc EXCEPT ![c] = "L99"]
    /\ UNCHANGED << page, total, invoked, failed, semaphore >>
    /\ WorkerFrame
    /\ UNCHANGED chapterVars
    /\ UNCHANGED libVars

\* Lines 99-105: the "error" event of the goroutine.
SendErrorEvent(c) ==
    /\ Live /\ pc[c] = "L99"
    /\ Offer(c, Progress("error", 0, 0))
    /\ AfterSend(c, "L95")
    /\ UNCHANGED << mainVars, limiterVars, env, page, total, invoked, failed,
                    semaphore, errorChan >>
    /\ UNCHANGED chapterVars
    /\ UNCHANGED libVars

\* Lines 93 and 95, deferred: <-semaphore, then wg.Done().
Release(c) ==
    /\ Live /\ pc[c] = "L95"
    /\ semaphore' = semaphore - 1
    /\ pc' = [pc EXCEPT ![c] = "done"]
    /\ UNCHANGED << page, total, invoked, failed, errorChan >>
    /\ WorkerFrame
    /\ UNCHANGED chapterVars
    /\ UNCHANGED libVars

\* ------------------------------------------- rate limiter, Close, consumer
\* time.NewTicker(500ms): a tick becomes available while the ticker runs; a
\* tick nobody took is not added to.
Tick ==
    /\ Live /\ ~rateLimiterStopped
    /\ rateLimiterC = 0
    /\ rateLimiterC' = 1
    /\ UNCHANGED << rateLimiterStopped, mainVars, workerVars, chanVars, env,
                    panicked, offered, semaphore, errorChan >>
    /\ UNCHANGED chapterVars
    /\ UNCHANGED libVars

\* Lines 320-330: rateLimiter.Stop(), which closes nothing (a tick already
\* buffered stays or is discarded, depending on the Go runtime); then the
\* select: a receive from progressChan when one is ready (an event is
\* buffered, or the channel is closed), close(progressChan) otherwise.
Close ==
    /\ Live
    /\ rateLimiterStopped' = TRUE
    /\ \E keep \in BOOLEAN : rateLimiterC' = IF keep THEN rateLimiterC ELSE 0
    /\ IF Len(progressChan) > 0
         THEN /\ progressChan' = Tail(progressChan)
              /\ UNCHANGED progressClosed
         ELSE /\ progressClosed' = TRUE
              /\ UNCHANGED progressChan
    /\ closeReturned' = TRUE
    /\ UNCHANGED << sendCalls, mainVars, workerVars, env, panicked, offered,
                    semaphore, errorChan >>
    /\ UNCHANGED chapterVars
    /\ UNCHANGED libVars

\* A consumer of GetProgressChannel() takes the oldest buffered event.
Receive ==
    /\ Live
    /\ Len(progressChan) > 0
    /\ progressChan' = Tail(progressChan)
    /\ UNCHANGED << progressClosed, closeReturned, sendCalls, mainVars,
                    workerVars, limiterVars, env, panicked, offered, semaphore,
                    errorChan >>
    /\ UNCHANGED chapterVars
    /\ UNCHANGED libVars

\* sendProgress called on its own (as the package's tests do), with the
\* number of the call as the event.
SendProgressCall ==
    /\ Live
    /\ sendCalls < ProgressCap + ExtraSends
    /\ sendProgressReady(progressChan)
    /\ sendCalls' = sendCalls + 1
    /\ IF progressClosed
         THEN /\ panicked' = TRUE
              /\ UNCHANGED progressChan
         ELSE /\ progressChan' = sendProgress(progressChan, sendCalls + 1)
              /\ UNCHANGED panicked
    /\ UNCHANGED << progressClosed, closeReturned, mainVars, workerVars,
                    limiterVars, env, offered, semaphore, errorChan >>
    /\ UNCHANGED chapterVars
    /\ UNCHANGED libVars

\* ------------------------------------------------------------ EPubBuilder
\* Lines 379-392: the file extension for a content type.
getExtensionFromContentType(contentType) ==
    CASE contentType \in {"image/jpeg", "image/jpg"} -> ".jpg"
      [] contentType = "image/png" -> ".png"
      [] contentType = "image/gif" -> ".gif"
      [] contentType = "image/webp" -> ".webp"
      [] OTHER -> ".jpg"

\* CoverData and ImageData; the content is empty or names the epub object in
\* use when it was made, so that the images of two sessions differ.
CoverData(kind, empty) ==
    [Content |-> IF empty THEN << >> ELSE << kind, builder.made >>,
     ContentType |-> "image/jpeg"]

ImageKinds == {"image", "empty", "untyped"}

ImageData(kind, index) ==
    [Content |-> IF kind = "empty" THEN << >> ELSE << "page", builder.made, index >>,
     ContentType |-> IF kind = "untyped" THEN "" ELSE "image/png",
     Index |-> index]

\* The chapters Init can be handed: nil (no element) or one of the run's.
ChapterArgs == {<< >>} \cup {<< ch >> : ch \in env.chapterArgs}

\* What a call of a builder method leaves alone.
BuilderFrame == UNCHANGED << downloaderVars, calc >>

\* Lines 128-164: Init. The fields are set before epub.NewEpub is called, so
\* its failure leaves them set and b.epub as it was; the directory MkdirTemp
\* made is removed again only on that failure.
EPubInit(mangaArg, chapterArg) ==
    /\ builder.made < MaxSessions
    /\ IF mangaArg = "nil" \/ chapterArg = << >>
         THEN /\ returned' = Return("Init", FALSE, << >>)
              /\ UNCHANGED << builder, scratch >>
         ELSE \E dirOk \in Outcomes("MkdirTemp"), epubOk \in Outcomes("NewEpub") :
                IF ~dirOk
                  THEN /\ returned' = Return("Init", FALSE, << >>)
                       /\ UNCHANGED << builder, scratch >>
                  ELSE /\ scratch' = IF epubOk THEN scratch \cup {builder.made + 1}
                                               ELSE scratch
                       /\ builder' =
                            [builder EXCEPT
                               !.manga = << SeriesName >>,
                               !.chapter = chapterArg,
                               !.tempDir = << builder.made + 1 >>,
                               !.images = << >>,
                               !.chapterCover = << >>,
                               !.mangaCover = << >>,
                               !.epub = IF epubOk THEN << builder.made + 1 >> ELSE @,
                               !.made = IF epubOk THEN @ + 1 ELSE @,
                               !.open = @ \/ epubOk]
                       /\ returned' = Return("Init", epubOk, << >>)
    /\ container' = << >>
    /\ BuilderFrame

\* Lines 168-177: SetMangaCover.
EPubSetMangaCover(empty) ==
    /\ IF builder.epub = << >> \/ empty
         THEN /\ returned' = Return("SetMangaCover", FALSE, << >>)
              /\ UNCHANGED builder
         ELSE /\ builder' =
                   [builder EXCEPT !.mangaCover = << CoverData("manga_cover", empty) >>]
              /\ returned' = Return("SetMangaCover", TRUE, << >>)
    /\ container' = << >>
    /\ UNCHANGED scratch
    /\ BuilderFrame

\* Lines 180-189: SetChapterCover.
EPubSetChapterCover(empty) ==
    /\ IF builder.epub = << >> \/ empty
         THEN /\ returned' = Return("SetChapterCover", FALSE, << >>)
              /\ UNCHANGED builder
         ELSE /\ builder' =
                   [builder EXCEPT
                      !.chapterCover = << CoverData("chapter_cover", empty) >>]
              /\ returned' = Return("SetChapterCover", TRUE, << >>)
    /\ container' = << >>
    /\ UNCHANGED scratch
    /\ BuilderFrame

\* A Next that takes images before Init.
EPubNextUnchecked(kind, index) ==
    /\ Len(builder.images) < MaxImages
    /\ IF kind # "image"
         THEN /\ returned' = Return("Next", FALSE, << >>)
              /\ UNCHANGED builder
         ELSE /\ builder' =
                   [builder EXCEPT !.images = Append(@, ImageData(kind, index))]
              /\ returned' = Return("Next", TRUE, << >>)
    /\ container' = << >>
    /\ UNCHANGED scratch
    /\ BuilderFrame

\* A Next that appends the image before it looks at it.
EPubNextKeepRejected(kind, index) ==
    /\ Len(builder.images) < MaxImages
    /\ IF builder.epub = << >>
         THEN /\ returned' = Return("Next", FALSE, << >>)
              /\ UNCHANGED builder
         ELSE /\ builder' =
                   [builder EXCEPT !.images = Append(@, ImageData(kind, index))]
              /\ returned' = Return("Next", kind = "image", << >>)
    /\ container' = << >>
    /\ UNCHANGED scratch
    /\ BuilderFrame

\* Lines 192-205: Next.
EPubNext(kind, index) ==
    /\ Len(builder.images) < MaxImages
    /\ IF builder.epub = << >> \/ kind # "image"
         THEN /\ returned' = Return("Next", FALSE, << >>)
              /\ UNCHANGED builder
         ELSE /\ builder' =
                   [builder EXCEPT !.images = Append(@, ImageData(kind, index))]
              /\ returned' = Return("Next", TRUE, << >>)
    /\ container' = << >>
    /\ UNCHANGED scratch
    /\ BuilderFrame

\* The images in the order they were fed.
sortSliceNot(images) == {images}

\* Lines 224-226: sort.Slice by Index, which is not stable: any order of the
\* images in which the Index does not decrease.
sortSlice(images) ==
    {s \in {[i \in 1 .. Len(images) |-> images[p[i]]] :
               p \in Permutations(1 .. Len(images))} :
        \A i \in 1 .. Len(s) - 1 : s[i].Index <= s[i + 1].Index}

\* Lines 250-283: the pages of the section: the chapter cover when there is
\* one and it could be added, then the images; with each, the content of the
\* file the path names.
PageData(sorted, coverOk) ==
    (IF builder.chapterCover # << >> /\ coverOk
       THEN << [Path |-> << "chapter_cover",
                            getExtensionFromContentType(
                                builder.chapterCover[1].ContentType) >>,
                Index |-> -1, Alt |-> "Chapter Cover",
                Content |-> builder.chapterCover[1].Content] >>
       ELSE << >>)
    \o [i \in 1 .. Len(sorted) |->
          [Path |-> << "page_", sorted[i].Index,
                       getExtensionFromContentType(sorted[i].ContentType) >>,
           Index |-> i, Alt |-> "Page",
           Content |-> sorted[i].Content]]

\* The container a call of Done writes (`container` holds what the last call
\* wrote); `fed` and `chapter` keep what the builder held.
Container(sorted, mangaCoverOk, coverOk) ==
    [path |-> outputPath(builder.manga[1], builder.chapter[1]),
     title |-> chapterTitle(builder.chapter[1]),
     epub |-> builder.epub,
     cover |-> IF builder.mangaCover # << >> /\ mangaCoverOk
                 THEN << builder.mangaCover[1].Content >> ELSE << >>,
     pages |-> PageData(sorted, coverOk),
     fed |-> builder.images,
     chapter |-> builder.chapter[1],
     chapterCover |-> builder.chapterCover]

\* Lines 262-312: a step of Done that writes into b.tempDir fails when the
\* directory is gone.
WriteOutcomes(call) ==
    IF builder.tempDir # << >> /\ builder.tempDir[1] \in scratch
      THEN Outcomes(call) ELSE {FALSE}

\* A Done that keeps what the builder accumulated.
EPubDoneKeepState ==
    /\ IF builder.epub = << >> \/ builder.images = << >>
         THEN /\ returned' = Return("Done", FALSE, << >>)
              /\ container' = << >>
              /\ UNCHANGED << builder, scratch >>
         ELSE \E sorted \in sortSlice(builder.images),
                 mangaCoverOk \in WriteOutcomes("addCoverImage"),
                 coverOk \in WriteOutcomes("addCoverImage"),
                 ok \in WriteOutcomes("Write") :
                /\ builder' = [builder EXCEPT
                                 !.images = sorted,
                                 !.open = @ /\ ~ok,
                                 !.written = IF ok THEN @ + 1 ELSE @]
                /\ scratch' = scratch \ {builder.tempDir[1]}
                /\ IF ok
                     THEN /\ container' = << Container(sorted, mangaCoverOk, coverOk) >>
                          /\ returned' =
                               Return("Done", TRUE,
                                      outputPath(builder.manga[1], builder.chapter[1]))
                     ELSE /\ returned' = Return("Done", FALSE, << >>)
                          /\ container' = << >>
    /\ BuilderFrame

\* Lines 208-324: Done. A failure on the way (a temp file, AddImage,
\* AddSection, Write) returns the error with the images sorted and the rest
\* as it was; success resets every field. The deferred function (216-221)
\* removes b.tempDir when Done returns, unless the field is empty by then, as
\* it is after the reset of line 321.
EPubDone ==
    /\ IF builder.epub = << >> \/ builder.images = << >>
         THEN /\ returned' = Return("Done", FALSE, << >>)
              /\ container' = << >>
              /\ UNCHANGED << builder, scratch >>
         ELSE \E sorted \in sortSlice(builder.images),
                 mangaCoverOk \in WriteOutcomes("addCoverImage"),
                 coverOk \in WriteOutcomes("addCoverImage"),
                 ok \in WriteOutcomes("Write") :
                IF ok
                  THEN /\ container' = << Container(sorted, mangaCoverOk, coverOk) >>
                       /\ builder' = [NewEPubBuilder EXCEPT
                                         !.made = builder.made,
                                         !.written = builder.written + 1]
                       /\ returned' =
                            Return("Done", TRUE,
                                   outputPath(builder.manga[1], builder.chapter[1]))
                       /\ UNCHANGED scratch
                  ELSE /\ builder' = [builder EXCEPT !.images = sorted]
                       /\ scratch' = scratch \ {builder.tempDir[1]}
                       /\ returned' = Return("Done", FALSE, << >>)
                       /\ container' = << >>
    /\ BuilderFrame

\* ------------------------------------------------- float64 arithmetic
RECURSIVE Pow2(_)
Pow2(n) == IF n = 0 THEN 1 ELSE 2 * Pow2(n - 1)

\* The 52 fraction bits of a float64 significand are held as four digits to
\* the base 2^13.
Base == Pow2(13)

\* A positive float64 [e, m], m[1] the most significant digit: the value is
\* (2^52 + m[1] * 2^39 + m[2] * 2^26 + m[3] * 2^13 + m[4]) * 2^(e - 52).
Float(e, m) == [e |-> e, m |-> m]

\* The next float64 above [e, m].
Successor(e, m) ==
    IF m[4] + 1 < Base THEN Float(e, << m[1], m[2], m[3], m[4] + 1 >>)
    ELSE IF m[3] + 1 < Base THEN Float(e, << m[1], m[2], m[3] + 1, 0 >>)
    ELSE IF m[2] + 1 < Base THEN Float(e, << m[1], m[2] + 1, 0, 0 >>)
    ELSE IF m[1] + 1 < Base THEN Float(e, << m[1] + 1, 0, 0, 0 >>)
    ELSE Float(e + 1, << 0, 0, 0, 0 >>)

\* Rounding to nearest: the kept digits, one more in the last place if `up`.
Round(e, kept, up) == IF up THEN Successor(e, kept) ELSE Float(e, kept)

\* The exponent of a/b: the e with 2^e <= a/b < 2^(e+1).
RECURSIVE Exponent(_, _)
Exponent(a, b) ==
    IF a >= b THEN (IF a >= 2 * b THEN 1 + Exponent(a, 2 * b) ELSE 0)
    ELSE Exponent(2 * a, b) - 1

\* float64(a) / float64(b) for positive integers: long division to 53 bits,
\* the quotient rounded to nearest, ties to even.
Divide(a, b) ==
    LET e == Exponent(a, b)
        num == IF e < 0 THEN a * Pow2(-e) ELSE a
        den == IF e > 0 THEN b * Pow2(e) ELSE b
        r0 == num - den
        d1 == (r0 * Base) \div den
        r1 == (r0 * Base) % den
        d2 == (r1 * Base) \div den
        r2 == (r1 * Base) % den
        d3 == (r2 * Base) \div den
        r3 == (r2 * Base) % den
        d4 == (r3 * Base) \div den
        r4 == (r3 * Base) % den
        up == \/ 2 * r4 > den
              \/ 2 * r4 = den /\ d4 % 2 = 1
    IN  Round(e, << d1, d2, d3, d4 >>, up)

\* The number of bits of n.
RECURSIVE BitLen(_)
BitLen(n) == IF n = 0 THEN 0 ELSE 1 + BitLen(n \div 2)

\* float64(w) * f for a positive integer w < 2^13: the exact product, its
\* lowest bits dropped to leave 53, rounded to nearest, ties to even.
Times(w, f) ==
    LET t4 == f.m[4] * w
        t3 == f.m[3] * w + t4 \div Base
        t2 == f.m[2] * w + t3 \div Base
        t1 == f.m[1] * w + t2 \div Base
        top == w + t1 \div Base
        p1 == t1 % Base
        p2 == t2 % Base
        p3 == t3 % Base
        p4 == t4 % Base
        drop == BitLen(top) - 1
        cut == Pow2(drop)
        up == Base \div cut
        kept == << (top % cut) * up + p1 \div cut,
                   (p1 % cut) * up + p2 \div cut,
                   (p2 % cut) * up + p3 \div cut,
                   (p3 % cut) * up + p4 \div cut >>
        dropped == p4 % cut
    IN  Round(f.e + drop, kept,
              \/ 2 * dropped > cut
              \/ 2 * dropped = cut /\ kept[4] % 2 = 1)

\* f < g.
Less(f, g) ==
    \/ f.e < g.e
    \/ /\ f.e = g.e
       /\ \E i \in 1 .. 4 :
             /\ f.m[i] < g.m[i]
             /\ \A j \in 1 .. i - 1 : f.m[j] = g.m[j]

\* int(f) for f < 2^14: the integer part.
Trunc(f) ==
    IF f.e < 0 THEN 0 ELSE Pow2(f.e) + f.m[1] \div Pow2(13 - f.e)

\* --------------------------------------------------------- ImageProcessor
\* ImageOptimizationSettings as far as calculateDimensions reads them.
ImageOptimizationSettings(maxWidth, maxHeight) ==
    [MaxWidth |-> maxWidth, MaxHeight |-> maxHeight]

\* kindle_image.go lines 74-93, for positive width and height.
calculateDimensions(settings, width, height) ==
    IF width <= settings.MaxWidth /\ height <= settings.MaxHeight
      THEN << width, height >>
      ELSE LET widthScale == Divide(settings.MaxWidth, width)
               heightScale == Divide(settings.MaxHeight, height)
               scale == IF Less(heightScale, widthScale)
                          THEN heightScale ELSE widthScale
           IN  << Trunc(Times(width, scale)), Trunc(Times(height, scale)) >>

\* The values of a uint8.
Uint8 == 0 .. 255

\* kindle_image.go lines 147-159, the factor given in quarters (a factor that
\* float64 holds exactly, as it does the product and the sum): value-128 is a
\* uint8 and wraps around; the sum is cut to 0 .. 255 and its fraction dropped.
adjustChannel(value, quarters) ==
    LET adjusted == ((value - 128) % 256) * quarters + 128 * 4
    IN  IF adjusted < 0 THEN 0
        ELSE IF adjusted > 255 * 4 THEN 255
        ELSE adjusted \div 4

\* An image of one colour channel: its bounds (Min at 1, 1) and its pixels.
Image(w, h, px) == [w |-> w, h |-> h, px |-> px]
Points(w, h) == (1 .. w) \X (1 .. h)

\* kindle_image.go lines 276-284.
clamp(value) == IF value < 0 THEN 0 ELSE IF value > 255 THEN 255 ELSE value

\* Lines 228-229: the pixels the filter loop visits; lines 262-270: the
\* pixels copied from the input afterwards.
Filtered(img, pt) ==
    /\ 1 < pt[1] /\ pt[1] < img.w
    /\ 1 < pt[2] /\ pt[2] < img.h
Copied(img, pt) == pt[1] \in {1, img.w} \/ pt[2] \in {1, img.h}

\* Lines 231-251: nine times the pixel less its eight neighbours.
Kernel(img, pt) ==
    LET x == pt[1]
        y == pt[2]
    IN  9 * img.px[pt]
        - img.px[<< x - 1, y - 1 >>] - img.px[<< x, y - 1 >>] - img.px[<< x + 1, y - 1 >>]
        - img.px[<< x - 1, y >>] - img.px[<< x + 1, y >>]
        - img.px[<< x - 1, y + 1 >>] - img.px[<< x, y + 1 >>] - img.px[<< x + 1, y + 1 >>]

\* A sharpen that does not copy the edges.
sharpenInterior(img) ==
    Image(img.w, img.h,
          [pt \in Points(img.w, img.h) |->
             IF Filtered(img, pt) THEN clamp(Kernel(img, pt)) ELSE 0])

\* Lines 219-273: a new image of the same bounds, all zero; the filter on the
\* pixels inside; the edges copied over from the input.
sharpen(img) ==
    Image(img.w, img.h,
          [pt \in Points(img.w, img.h) |->
             IF Copied(img, pt) THEN img.px[pt]
             ELSE IF Filtered(img, pt) THEN clamp(Kernel(img, pt))
             ELSE 0])

\* A call of a pure function that has not run yet.
Call(fn, args) == [fn |-> fn, args |-> args, result |-> << >>, done |-> FALSE]

\* What the run of a pure function leaves alone.
CalcFrame == UNCHANGED << downloaderVars, builderVars >>

SanitizeFilename ==
    /\ calc.fn = "sanitizeFilename" /\ ~calc.done
    /\ calc' = [calc EXCEPT !.result = sanitizeFilename(calc.args[1]), !.done = TRUE]
    /\ CalcFrame

CalculateDimensions ==
    /\ calc.fn = "calculateDimensions" /\ ~calc.done
    /\ calc' = [calc EXCEPT
                  !.result = calculateDimensions(calc.args[1], calc.args[2],
                                                 calc.args[3]),
                  !.done = TRUE]
    /\ CalcFrame

Sharpen ==
    /\ calc.fn = "sharpen" /\ ~calc.done
    /\ calc' = [calc EXCEPT !.result = << sharpen(calc.args[1]) >>, !.done = TRUE]
    /\ CalcFrame

AdjustChannel ==
    /\ calc.fn = "adjustChannel" /\ ~calc.done
    /\ calc' = [calc EXCEPT
                  !.result = << adjustChannel(calc.args[1], calc.args[2]) >>,
                  !.done = TRUE]
    /\ CalcFrame

\* ------------------------------------------------------ KindleConverter
\* Lines 643-647: the formats of the export besides the native one.
FormatMOBI == "mobi"
FormatAZW3 == "azw3"
FormatKFX == "kfx"

\* A page image file of an input container: the number its name carries
\* (page_%04d, whose order as a string is the order of the number below
\* 10000) and whether the file can be read and processed. Files that are no
\* jpg, jpeg or png, and covers, are left out of the model: lines 776-786
\* skip them.
File(name, decodes) == [Filename |-> name, decodes |-> decodes]

\* An extraction that numbers the pages in the order of the archive.
extractAndProcessChapterUnsorted(files, chapterIndex) ==
    LET kept == SelectSeq(files, LAMBDA f : f.decodes)
    IN  [i \in 1 .. Len(kept) |->
           [Data |-> << chapterIndex, kept[i].Filename >>,
            ChapterIndex |-> chapterIndex,
            PageIndex |-> i - 1,
            Filename |-> kept[i].Filename]]

\* Lines 763-826: the images of one input container. A file that cannot be
\* opened, read or processed is passed over (789-804); the others are sorted
\* by file name (816-818) and numbered from 0 in that order (821-823). Data
\* stands for the processed bytes: it names the file they were made from.
extractAndProcessChapter(files, chapterIndex) ==
    LET kept == SelectSeq(files, LAMBDA f : f.decodes)
        sorted == SortSeq(kept, LAMBDA a, b : a.Filename < b.Filename)
    IN  [i \in 1 .. Len(sorted) |->
           [Data |-> << chapterIndex, sorted[i].Filename >>,
            ChapterIndex |-> chapterIndex,
            PageIndex |-> i - 1,
            Filename |-> sorted[i].Filename]]

\* Lines 724-735: the images of the chapters from the i-th on, the index of
\* a chapter counting from 0.
RECURSIVE allImages(_, _)
allImages(chapters, i) ==
    IF i > Len(chapters) THEN << >>
    ELSE extractAndProcessChapter(chapters[i], i - 1) \o allImages(chapters, i + 1)

\* Lines 852-857: the image handed to the builder.
Ordinal(img) ==
    [Content |-> img.Data, ContentType |-> "image/jpeg",
     Index |-> img.ChapterIndex * Multiplier + img.PageIndex]

\* Lines 829-870: the container the fresh builder writes, and whether that
\* went well. Done fails without an image (212-214); it sorts the images by
\* Index with sort.Slice (224-226), which may leave images of the same Index
\* in either order, and names the file of each after its Index (260), so
\* that two images of one Index ask AddImage (270) for the same name: the
\* library may refuse that or take it.
generateOptimizedEPUB(images) ==
    LET fed == [i \in 1 .. Len(images) |-> Ordinal(images[i])]
        stable == SortSeq(fed, LAMBDA a, b : a.Index < b.Index)
        ties == {stable[k].Index : k \in {j \in 1 .. Len(fed) - 1 :
                                            stable[j].Index = stable[j + 1].Index}}
        order(swapped) ==
            SortSeq([i \in 1 .. Len(fed) |-> i],
                    LAMBDA i, j :
                      \/ fed[i].Index < fed[j].Index
                      \/ /\ fed[i].Index = fed[j].Index
                         /\ IF fed[i].Index \in swapped THEN i > j ELSE i < j)
        pages(by) ==
            [i \in 1 .. Len(fed) |->
               [Path |-> << "page_", fed[by[i]].Index,
                            getExtensionFromContentType(fed[by[i]].ContentType) >>,
                Index |-> i, Alt |-> "Page",
                Content |-> fed[by[i]].Content]]
        none == [ok |-> FALSE, pages |-> << >>]
    IN  IF fed = << >> THEN {none}
        ELSE UNION {IF init /\ added /\ written
                      THEN {[ok |-> TRUE, pages |-> pages(order(swapped))] :
                               swapped \in SUBSET ties}
                      ELSE {none} :
                    init \in Outcomes("Init"),
                    added \in IF ties = {} THEN {TRUE} ELSE BOOLEAN,
                    written \in Outcomes("Write")}

\* A run of an external tool and how it ended.
Run(tool, ok) == [tool |-> tool, ok |-> ok]

\* A conversion that gives up when ebook-convert fails.
convertFormatCalibreOnly(epubPath, format) ==
    {IF calibre
       THEN [path |-> << "output", format >>, ok |-> TRUE,
             tried |-> << Run("ebook-convert", TRUE) >>]
       ELSE [path |-> epubPath, ok |-> FALSE,
             tried |-> << Run("ebook-convert", FALSE) >>] :
     calibre \in Outcomes("ebook-convert")}

\* Lines 873-892: the conversion of the written container: ebook-convert,
\* then kindlegen when the format is MOBI, then the path of the container
\* with an error. `tried` is the tools that were run, in order.
convertFormat(epubPath, format) ==
    {IF calibre
       THEN [path |-> << "output", format >>, ok |-> TRUE,
             tried |-> << Run("ebook-convert", TRUE) >>]
       ELSE IF format = FormatMOBI
         THEN [path |-> IF kindlegen THEN << "output", format >> ELSE epubPath,
               ok |-> kindlegen,
               tried |-> << Run("ebook-convert", FALSE),
                            Run("kindlegen", kindlegen) >>]
         ELSE [path |-> epubPath, ok |-> FALSE,
               tried |-> << Run("ebook-convert", FALSE) >>] :
     calibre \in Outcomes("ebook-convert"),
     kindlegen \in Outcomes("kindlegen")}

\* What a call of ConvertChapters returns (path, ok) and leaves behind: the
\* container it wrote, at epubPath, and the tools it ran.
Export(path, ok, epubPath, pages, tried) ==
    [path |-> path, ok |-> ok, epubPath |-> epubPath, pages |-> pages,
     tried |-> tried]

\* Lines 712-752: ConvertChapters. The path of the written container is
\* that of the builder for the synthetic chapter "1" (838-846).
ConvertChapters ==
    /\ calc.fn = "ConvertChapters" /\ ~calc.done
    /\ LET chapters == calc.args[1]
           format == calc.args[2]
           error == Export(<< >>, FALSE, << >>, << >>, << >>)
           epubPath == << "output", "epub" >>
       IN  \E made \in Outcomes("MkdirAll"), opened \in Outcomes("OpenReader") :
             IF chapters = << >> \/ ~made \/ ~opened
               THEN calc' = [calc EXCEPT !.result = << error >>, !.done = TRUE]
               ELSE \E epub \in generateOptimizedEPUB(allImages(chapters, 1)) :
                      IF ~epub.ok
                        THEN calc' = [calc EXCEPT !.result = << error >>,
                                                  !.done = TRUE]
                        ELSE IF format # "epub" /\ format # ""
                          THEN \E c \in convertFormat(epubPath, format) :
                                 calc' = [calc EXCEPT
                                   !.result =
                                      << Export(IF c.ok THEN c.path ELSE << >>,
                                                c.ok, epubPath, epub.pages,
                                                c.tried) >>,
                                   !.done = TRUE]
                          ELSE calc' = [calc EXCEPT
                                 !.result = << Export(epubPath, TRUE, epubPath,
                                                      epub.pages, << >>) >>,
                                 !.done = TRUE]
    /\ CalcFrame

\* ------------------------------------------------------- specifications
Environment(maxChapters, maxPages, maxCalls, covers, faults, trace) ==
    [maxChapters |-> maxChapters, maxPages |-> maxPages, maxCalls |-> maxCalls,
     covers |-> covers, faults |-> faults, trace |-> trace,
     numbers |-> OwnNumbers, chapterArgs |-> {ChapterArg(<< "1" >>, << >>, << >>)}]

\* A Downloader and an EPubBuilder as their constructors leave them, in
\* environment e, the progress channel holding `backlog`.
Constructed(e, backlog) ==
    /\ env = e
    /\ mangaStatus = ""
    /\ repoStatus = "absent"
    /\ repoLog = << >>
    /\ pcMain = "idle"
    /\ result = "none"
    /\ batch = 0
    /\ calls = 0
    /\ pc = NoChapter
    /\ page = [c \in Chapters |-> 0]
    /\ total = [c \in Chapters |-> 0]
    /\ semaphore = 0
    /\ errorChan = {}
    /\ rateLimiterC = 0
    /\ rateLimiterStopped = FALSE
    /\ progressChan = backlog
    /\ progressClosed = FALSE
    /\ panicked = FALSE
    /\ invoked = [c \in Chapters |-> 0]
    /\ failed = [c \in Chapters |-> FALSE]
    /\ offered = [c \in Chapters |-> << >>]
    /\ savedDownloading = FALSE
    /\ resolved = FALSE
    /\ finalSave = << >>
    /\ closeReturned = FALSE
    /\ sendCalls = 0
    /\ chapter = [c \in Chapters |-> ChapterRecord(FALSE, NoPath)]
    /\ repoChapter = [c \in Chapters |-> ChapterRecord(FALSE, NoPath)]
    /\ log = [c \in Chapters |-> << >>]
    /\ builder = NewEPubBuilder
    /\ container = << >>
    /\ returned = Return("none", TRUE, << >>)
    /\ scratch = {}

\* NewDownloader (lines 48-57) in environment e, the progress channel holding
\* `backlog`.
NewDownloader(e, backlog) ==
    /\ Constructed(e, backlog)
    /\ calc = NoCall

MainStep ==
    \/ SaveDownloading
    \/ ResolveChapters
    \/ SpawnWorkers
    \/ WaitWorkers
    \/ SaveFinal

\* A step inside DownloadChapter (lines 140-246) other than a permit wait.
ChapterStep(c) ==
    \/ SendStarted(c)
    \/ GetPages(c)
    \/ InitBuilder(c)
    \/ MangaCover(c)
    \/ ChapterCover(c)
    \/ SendTotal(c)
    \/ SendPage(c)
    \/ FetchPage(c)
    \/ BuilderNext(c)
    \/ SendProcessing(c)
    \/ BuilderDone(c)
    \/ UpdateChapterStatus(c)
    \/ SendComplete(c)

\* A step of the goroutine DownloadManga started for chapter c.
WorkerStep(c) ==
    \/ ChapterStep(c)
    \/ SendError(c)
    \/ SendErrorEvent(c)
    \/ Release(c)

\* A step of the Downloader itself: DownloadManga and its goroutines.
DownloaderStep ==
    \/ MainStep
    \/ \E c \in Chapters : Acquire(c)
    \/ \E c \in Chapters : WaitPermit(c)
    \/ \E c \in Chapters : WorkerStep(c)

\* Spec: one DownloadManga call of up to MaxChapters chapters on a running
\* Downloader.
Init == NewDownloader(Environment(MaxChapters, MaxPages, 1, TRUE, Collaborators, FALSE), << >>)

Next ==
    \/ DownloadMangaNil
    \/ \E n \in 0 .. env.maxChapters : DownloadManga(n)
    \/ DownloaderStep
    \/ Tick

Spec == Init /\ [][Next]_vars

\* SpecSeq: up to MaxCalls DownloadManga calls on the same series, one after
\* the other, each of up to SeqChapters chapters.
InitSeq ==
    NewDownloader(Environment(SeqChapters, MaxPages, MaxCalls, TRUE, Collaborators, FALSE),
                  << >>)

SpecSeq == InitSeq /\ [][Next]_vars

\* SpecPool: one DownloadManga call of up to PoolChapters chapters of one page,
\* the source offering no cover and failing only in GetPages.
InitPool == NewDownloader(Environment(PoolChapters, 1, 1, FALSE, {"GetPages"}, FALSE), << >>)

SpecPool == InitPool /\ [][Next]_vars

\* SpecClose: one DownloadManga call while a consumer reads the progress
\* channel and Close may be called at any moment.
InitClose ==
    NewDownloader(Environment(CloseChapters, MaxPages, 1, TRUE, Collaborators, FALSE),
                  << >>)

NextClose ==
    \/ \E n \in 0 .. env.maxChapters : DownloadManga(n)
    \/ DownloaderStep
    \/ Tick
    \/ Close
    \/ Receive

SpecClose == InitClose /\ [][NextClose]_vars

\* SpecProgress: sendProgress, Close and a consumer on the progress channel.
InitProgress == NewDownloader(Environment(0, 0, 0, FALSE, {}, FALSE), << >>)

NextProgress ==
    \/ SendProgressCall
    \/ Receive
    \/ Close

SpecProgress == InitProgress /\ [][NextProgress]_vars

\* SpecLive: one DownloadManga call on a running Downloader whose progress
\* channel nobody reads and which may still hold the events of earlier batches
\* (chapters of one page, the source offering no cover).
\* The Go scheduler runs a goroutine that can run, and the ticker keeps
\* ticking: a step of the Downloader that stays possible is taken, and so is
\* a tick.
Backlog(n) == [i \in 1 .. n |-> Stale]

InitLive ==
    \E n \in {0, ProgressCap - 2, ProgressCap} :
        NewDownloader(Environment(LiveChapters, 1, 1, FALSE, Collaborators, FALSE),
                      Backlog(n))

NextLive ==
    \/ \E n \in 0 .. env.maxChapters : DownloadManga(n)
    \/ DownloaderStep
    \/ Tick

Fairness ==
    /\ WF_vars(DownloaderStep)
    /\ WF_vars(Tick)

SpecLive == InitLive /\ [][NextLive]_vars /\ Fairness

\* SpecChapter: DownloadChapter called directly for one chapter on a running
\* Downloader; a log is kept.
InitChapter ==
    NewDownloader(Environment(1, DirectPages, 0, TRUE, Collaborators, TRUE),
                  << >>)

NextChapter ==
    \/ \E c \in Chapters, mangaArg \in Args, chapterArg \in Args :
          DownloadChapter(c, mangaArg, chapterArg)
    \/ \E c \in Chapters : WaitPermit(c)
    \/ \E c \in Chapters : ChapterStep(c)
    \/ Tick

SpecChapter == InitChapter /\ [][NextChapter]_vars

\* SpecShared: one DownloadManga call of up to two chapters, the source
\* offering covers; a log is kept.
InitShared == NewDownloader(Environment(2, SharedPages, 1, TRUE, {}, TRUE), << >>)

SpecShared == InitShared /\ [][NextLive]_vars

\* SpecE2E: one DownloadManga call of up to E2EChapters chapters of up to
\* E2EPages pages, the source offering no cover and every collaborator call
\* succeeding; a log is kept.
InitE2E == NewDownloader(Environment(E2EChapters, E2EPages, 1, FALSE, {}, TRUE), << >>)

SpecE2E == InitE2E /\ [][NextLive]_vars

\* SpecEPub: one EPubBuilder, its methods called in any order, for chapters
\* with and without volume and title.
BuilderFaults == {"MkdirTemp", "NewEpub", "addCoverImage", "Write"}

BuilderChapters ==
    {ChapterArg(<< "1" >>, volume, title) :
        volume \in {<< >>, << "0" >>, << "2" >>}, title \in {<< >>, << "T" >>}}

InitEPub ==
    NewDownloader([Environment(0, 0, 0, FALSE, BuilderFaults, FALSE)
                     EXCEPT !.chapterArgs = BuilderChapters],
                  << >>)

NextEPub ==
    \/ \E mangaArg \in Args, chapterArg \in ChapterArgs : EPubInit(mangaArg, chapterArg)
    \/ \E empty \in BOOLEAN : EPubSetMangaCover(empty)
    \/ \E empty \in BOOLEAN : EPubSetChapterCover(empty)
    \/ \E kind \in ImageKinds, index \in 0 .. MaxImages : EPubNext(kind, index)
    \/ EPubDone

SpecEPub == InitEPub /\ [][NextEPub]_vars

\* SpecSanitize: sanitizeFilename applied to one name.
NameChars == {"a", " ", ".", "/"}
Names == UNION {[1 .. n -> NameChars] : n \in 0 .. MaxNameLen}

Idle == Environment(0, 0, 0, FALSE, {}, FALSE)

InitSanitize ==
    /\ Constructed(Idle, << >>)
    /\ calc \in {Call("sanitizeFilename", << name >>) : name \in Names}

SpecSanitize == InitSanitize /\ [][SanitizeFilename]_vars

\* SpecTwins: one DownloadManga call of up to TwinChapters chapters, which
\* have each a Number of their own or all the same Number.
SharedNumbers == [c \in Chapters |-> << "1" >>]

InitTwins ==
    \E numbers \in {OwnNumbers, SharedNumbers} :
        NewDownloader([Environment(TwinChapters, TwinPages, 1, FALSE, {}, FALSE)
                         EXCEPT !.numbers = numbers],
                      << >>)

SpecTwins == InitTwins /\ [][NextLive]_vars

\* SpecDimensions: calculateDimensions applied to one source size, under the
\* settings of kindle_test.go.
TestSettings == ImageOptimizationSettings(800, 1200)
SourceSides == {25 * i : i \in 1 .. MaxUnits}

InitDimensions ==
    /\ Constructed(Idle, << >>)
    /\ calc \in {Call("calculateDimensions", << TestSettings, width, height >>) :
                    width \in SourceSides, height \in SourceSides}

SpecDimensions == InitDimensions /\ [][CalculateDimensions]_vars

\* SpecStrips: calculateDimensions applied to one wide and low source size.
InitStrips ==
    /\ Constructed(Idle, << >>)
    /\ calc \in {Call("calculateDimensions", << TestSettings, width, height >>) :
                    width \in SourceSides, height \in 1 .. MaxStrip}

SpecStrips == InitStrips /\ [][CalculateDimensions]_vars

\* SpecSharpen: sharpen applied to one image of up to MaxSide pixels by up
\* to three, the side of the kernel, of two values far apart or close to
\* each other.
Palettes == {{40, 200}, {100, 110}}

InitSharpen ==
    /\ Constructed(Idle, << >>)
    /\ calc \in {Call("sharpen", << Image(w, h, px) >>) :
                    << w, h, px >> \in
                        UNION {{<< w, h, px >> : px \in [Points(w, h) -> palette]} :
                                 << w, h, palette >> \in
                                     (0 .. MaxSide) \X (0 .. 3) \X Palettes}}

SpecSharpen == InitSharpen /\ [][Sharpen]_vars

\* SpecContrast: adjustChannel applied to one channel value and one factor.
InitContrast ==
    /\ Constructed(Idle, << >>)
    /\ calc \in {Call("adjustChannel", << value, quarters >>) :
                    value \in Uint8, quarters \in 0 .. MaxQuarters}

SpecContrast == InitContrast /\ [][AdjustChannel]_vars

\* The device export of a few small containers, any of whose files may fail
\* to decode, to each format, with the archive, the writing and the two
\* conversion tools liable to fail.
ExportFaults == {"OpenReader", "Write", "ebook-convert", "kindlegen"}
Formats == {"", "epub", FormatMOBI, FormatAZW3, FormatKFX}

\* The page files 1 .. n as an archive lists them: in the order of their
\* names or against it.
Archive(n, reversed, decodes) ==
    [i \in 1 .. n |->
       IF reversed THEN File(n + 1 - i, decodes[n + 1 - i]) ELSE File(i, decodes[i])]

InputContainers ==
    UNION {{Archive(n, reversed, decodes) :
              reversed \in BOOLEAN, decodes \in [1 .. n -> BOOLEAN]} :
           n \in 0 .. MaxFiles}

InitExport ==
    /\ Constructed(Environment(0, 0, 0, FALSE, ExportFaults, FALSE), << >>)
    /\ calc \in {Call("ConvertChapters", << chapters, format >>) :
                   chapters \in UNION {[1 .. k -> InputContainers] :
                                         k \in 0 .. MaxContainers},
                   format \in Formats}

SpecExport == InitExport /\ [][ConvertChapters]_vars

\* The device export, with nothing failing, of one container or two, the
\* first of a few pages or of about Multiplier pages, the second of a few.
ShortCounts == 0 .. MaxShort
LongCounts == {Multiplier + k : k \in 0 .. MaxOver}

Whole(n, reversed) == Archive(n, reversed, [i \in 1 .. n |-> TRUE])

InitOrdinals ==
    /\ Constructed(Idle, << >>)
    /\ calc \in {Call("ConvertChapters", << chapters, "" >>) :
                   chapters \in
                     UNION {{<< Whole(first, reversed) >>}
                              \cup {<< Whole(first, reversed), Whole(second, reversed) >> :
                                      second \in ShortCounts} :
                            first \in ShortCounts \cup LongCounts,
                            reversed \in BOOLEAN}}

SpecOrdinals == InitOrdinals /\ [][ConvertChapters]_vars

\* ---------------------------------------------------------------- claims
\* The labels at which a worker is executing DownloadChapter (between the
\* call of line 97 and its return).
InDownloadChapter ==
    {"L138", "L140", "L148", "L159", "L164", "L171", "L175", "L182", "L185",
     "L195", "L204", "L210", "L214", "L218", "L226", "L232", "L238"}

Executing == {c \in Chapters : pc[c] \in InDownloadChapter}

InBatch == 1 .. batch

FailedChapters == {c \in InBatch : failed[c]}

\* C1: during DownloadManga at most 3 DownloadChapter invocations execute at
\* the same time, whatever the number of chapters and the interleaving.
C1_AtMostThreeExecuting == Cardinality(Executing) <= 3

\* Three invocations execute while a fourth goroutine waits for the semaphore.
C1_Witness ==
    /\ Cardinality(Executing) = 3
    /\ \E c \in Chapters : pc[c] = "spawned"

\* C2: DownloadChapter is invoked exactly once for every chapter of the batch,
\* whichever of the other chapters fail: a goroutine past the semaphore has
\* made its one invocation, and when DownloadManga gets past wg.Wait() every
\* chapter of the batch has had its invocation.
C2_EveryChapterInvokedOnce ==
    /\ \A c \in Chapters :
         invoked[c] = IF pc[c] \in {"none", "spawned"} THEN 0 ELSE 1
    /\ (pcMain = "L124" \/ result = "nil") => \A c \in InBatch : invoked[c] = 1

\* DownloadManga has returned; chapter 1 failed and its sibling succeeded.
C2_Witness ==
    /\ result = "nil"
    /\ batch = 2
    /\ failed[1] /\ ~failed[2]
    /\ invoked[1] = 1 /\ invoked[2] = 1

\* C3: the final status is persisted only after every chapter invocation of
\* the batch has finished, and it is "partial" if a DownloadChapter invocation
\* returned an error and "completed" otherwise.
C3_FinalStatusAfterAllChapters ==
    /\ (finalSave # << >> \/ repoStatus \in {"partial", "completed"}) =>
         \A c \in InBatch : pc[c] = "done"
    /\ finalSave # << >> =>
         /\ finalSave[1] = IF FailedChapters # {} THEN "partial" ELSE "completed"
         /\ finalSave[2] => repoStatus = finalSave[1]

\* "partial" has been persisted for a batch of two chapters of which one failed.
C3_Witness ==
    /\ finalSave = << "partial", TRUE >>
    /\ batch = 2
    /\ Cardinality(FailedChapters) = 1
    /\ repoStatus = "partial"

\* C4: "downloading" is persisted before any chapter invocation starts: while
\* the batch runs, a goroutine exists, a permit is taken, an event is offered
\* or a page is fetched only after the SaveManga of line 72 returned nil, and
\* the persisted status is "downloading" until the final save.
C4_DownloadingSavedBeforeChapters ==
    \A c \in Chapters :
        (pc[c] # "none" \/ invoked[c] > 0 \/ offered[c] # << >>) =>
            /\ savedDownloading
            /\ (finalSave = << >>) => (repoStatus = "downloading")

\* A page is being fetched and "downloading" is what the repository holds.
C4_Witness ==
    \E c \in Chapters :
        /\ pc[c] = "L204"
        /\ Len(offered[c]) = 3
        /\ repoStatus = "downloading"

\* The last event offered for chapter c is an "error" event.
ErrorOffered(c) ==
    /\ offered[c] # << >>
    /\ offered[c][Len(offered[c])].Status = "error"

\* C5: once the chapter list is resolved DownloadManga returns nil for every
\* combination of chapter outcomes; the failures show as "error" events and
\* as the "partial" status handed to the repository.
C5_ChapterFailuresNotReturned ==
    /\ result = "err" => ~resolved
    /\ result = "nil" =>
         /\ resolved
         /\ \A c \in FailedChapters : ErrorOffered(c)
         /\ (FailedChapters # {}) =>
              (mangaStatus = "partial" /\ finalSave[1] = "partial")

\* DownloadManga has returned nil although both chapters of the batch failed.
C5_Witness ==
    /\ result = "nil"
    /\ batch = 2
    /\ FailedChapters = {1, 2}

\* C6, as claimed: over any sequence of DownloadManga calls the persisted
\* status never goes back from partial or completed to downloading.
C6_NeverRegresses ==
    [][(repoStatus \in {"partial", "completed"}) => (repoStatus' # "downloading")]_vars

\* C6, amended: the persisted status changes only to "downloading", at the
\* start of a call (line 72) and whatever it was before, and from
\* "downloading" to "partial" or "completed", at the end of a call (line 124).
C6_StatusTransitions ==
    [][(repoStatus' # repoStatus) =>
          (\/ (pcMain = "L71" /\ repoStatus' = "downloading")
           \/ (/\ pcMain = "L124"
               /\ repoStatus = "downloading"
               /\ repoStatus' \in {"partial", "completed"}))]_vars

\* The second call has persisted "downloading" over the "completed" of the
\* first.
C6_Witness == repoLog = << "downloading", "completed", "downloading" >>

\* C7: sendProgress never blocks: it can always run, and with the channel
\* full the call returns with the buffered events unchanged (the event is
\* dropped).
C7_SendProgressNeverBlocks ==
    /\ [](Live /\ sendCalls < ProgressCap + ExtraSends => ENABLED SendProgressCall)
    /\ [][(sendCalls' # sendCalls /\ Len(progressChan) = ProgressCap) =>
            (progressChan' = progressChan /\ ~panicked')]_vars

\* The channel holds the first 100 events, unread, and call 101 has returned.
C7_Witness ==
    /\ sendCalls = ProgressCap + 1
    /\ progressChan = [i \in 1 .. ProgressCap |-> i]
    /\ ~panicked

\* C8: DownloadManga returns even if nothing ever reads the progress channel,
\* as long as the ticker keeps ticking.
C8_DownloadReturnsWithoutConsumer ==
    (pcMain # "idle") ~> (pcMain = "idle")

\* DownloadManga has returned nil with the channel full, after its goroutines
\* offered events that found no free slot.
C8_Witness ==
    /\ result = "nil"
    /\ batch = 2
    /\ Len(progressChan) = ProgressCap
    /\ progressChan[ProgressCap] = Stale
    /\ \A c \in InBatch : Len(offered[c]) >= 2

\* C9: after Close no download is left stuck: while a DownloadManga call is in
\* flight, one of its goroutines can take a step or a tick can still arrive.
C9_CloseReleasesWaiters ==
    (rateLimiterStopped /\ Live /\ pcMain # "idle") =>
        ENABLED (DownloaderStep \/ Tick)

\* C10: once Close has returned the progress channel is closed, whatever it
\* held when Close was called.
C10_CloseClosesChannel == closeReturned => progressClosed

\* ------------------------------------------------ claims on DownloadChapter
\* The positions in log[c] of the operations named in ops.
Entries(c, ops) == {i \in 1 .. Len(log[c]) : log[c][i].op \in ops}

\* DownloadChapter was called for c with a nil series or a nil chapter.
NilCall(c) == log[c] # << >> /\ ~log[c][1].ok

\* C11: DownloadChapter with a nil series or a nil chapter returns an error
\* and has done nothing else: no permit taken, no event sent, no call of the
\* source, the repository or a builder.
C11_NilFailsFast ==
    \A c \in Chapters :
        NilCall(c) =>
            /\ pc[c] = "returned" /\ failed[c]
            /\ Len(log[c]) = 1
            /\ offered[c] = << >>
            /\ chapter[c] = ChapterRecord(FALSE, NoPath)
            /\ repoChapter[c] = ChapterRecord(FALSE, NoPath)

\* A nil call has returned and the tick that was ready is still there.
C11_Witness ==
    \E c \in Chapters :
        /\ NilCall(c)
        /\ pc[c] = "returned"
        /\ rateLimiterC = 1

\* The entries of log[c] that record a failure: an operation that returned an
\* error, or a page list that came back empty.
Failures(c, ops) ==
    {i \in Entries(c, ops) :
        ~log[c][i].ok \/ (log[c][i].op = "GetPages" /\ log[c][i].n = 0)}

\* The indexes of the pages fetched successfully for chapter c, in order.
RECURSIVE FetchedFrom(_, _)
FetchedFrom(c, i) ==
    IF i > Len(log[c]) THEN << >>
    ELSE (IF log[c][i].op = "Get" /\ log[c][i].ok THEN << log[c][i].n >> ELSE << >>)
         \o FetchedFrom(c, i + 1)
Fetched(c) == FetchedFrom(c, 1)

\* C12: a page fetch error, an empty page list or a page-list error aborts the
\* chapter: DownloadChapter returns an error and does nothing after the
\* failure (no later page, no builder.Done, no UpdateChapterStatus), and the
\* chapter object stays not downloaded, without a path.
C12_PageFailureAbortsChapter ==
    \A c \in Chapters :
        \A i \in Failures(c, {"GetPages", "Get"}) :
            /\ i = Len(log[c])
            /\ pc[c] = "returned" /\ failed[c]
            /\ Entries(c, {"Done", "UpdateChapterStatus"}) = {}
            /\ chapter[c] = ChapterRecord(FALSE, NoPath)
            /\ repoChapter[c] = ChapterRecord(FALSE, NoPath)

\* The fetch of the second page of two failed after the first was fetched
\* and fed to the builder, and DownloadChapter has returned.
C12_Witness ==
    \E c \in Chapters :
        /\ pc[c] = "returned"
        /\ total[c] = 2
        /\ Fetched(c) = << 0 >>
        /\ log[c][Len(log[c])] = Op("Get", 2, 1, FALSE)

\* C13: when DownloadChapter has returned, either it succeeded and the chapter
\* object and the repository record both are downloaded with the new path, or
\* it failed and neither was changed.
C13_FlagAndPathAtomic ==
    \A c \in Chapters :
        pc[c] = "returned" =>
            IF failed[c]
              THEN /\ chapter[c] = ChapterRecord(FALSE, NoPath)
                   /\ repoChapter[c] = ChapterRecord(FALSE, NoPath)
              ELSE /\ chapter[c] = ChapterRecord(TRUE, EpubPath(c))
                   /\ repoChapter[c] = ChapterRecord(TRUE, EpubPath(c))

CoverOpNames ==
    {"GetMangaCoverURL", "GetChapterCoverURL", "GetCover", "SetMangaCover",
     "SetChapterCover"}

AllOpNames ==
    CoverOpNames \cup {"DownloadChapter", "permit", "GetPages", "Init", "Get",
                       "Next", "Done", "UpdateChapterStatus"}

\* C14: cover handling is not fatal: a cover step that failed is never the
\* last thing DownloadChapter did, a chapter fails only by a step that is not
\* a cover step, and a chapter none of whose other steps failed returns nil,
\* materialized, with every page of its list fetched in order.
C14_CoversNonFatal ==
    \A c \in Chapters :
        /\ \A i \in Failures(c, CoverOpNames) :
              i = Len(log[c]) => (pc[c] # "returned" /\ ~failed[c])
        /\ failed[c] => Failures(c, AllOpNames \ CoverOpNames) # {}
        /\ (pc[c] = "returned" /\ ~failed[c]) =>
              /\ chapter[c] = ChapterRecord(TRUE, EpubPath(c))
              /\ Fetched(c) = [i \in 1 .. total[c] |-> i - 1]

\* DownloadChapter has returned nil after the fetch of the series cover failed
\* and the builder refused the chapter cover.
C14_Witness ==
    \E c \in Chapters :
        /\ pc[c] = "returned" /\ ~failed[c]
        /\ chapter[c].Downloaded
        /\ Failures(c, {"GetCover"}) # {}
        /\ Failures(c, {"SetChapterCover"}) # {}

\* The calls DownloadChapter makes over the network.
NetworkOps == {"GetPages", "GetCover", "Get"}

\* C15: within one invocation every network call is preceded by a permit
\* taken after the network call before it.
C15_PermitBeforeEachNetworkCall ==
    \A c \in Chapters :
        \A i \in Entries(c, NetworkOps) :
            \E j \in Entries(c, {"permit"}) :
                /\ j < i
                /\ \A k \in Entries(c, NetworkOps) : k < i => k < j

\* The sum of f over the chapters of S.
RECURSIVE Sum(_, _)
Sum(f, S) ==
    IF S = {} THEN 0
    ELSE LET c == CHOOSE x \in S : TRUE IN f[c] + Sum(f, S \ {c})

\* The permits the workers have taken, and the image fetches (covers and
\* pages) they have started, all workers together.
PermitsTaken == Sum([c \in Chapters |-> Cardinality(Entries(c, {"permit"}))], Chapters)
ImageFetches ==
    Sum([c \in Chapters |-> Cardinality(Entries(c, {"GetCover", "Get"}))], Chapters)

\* C16: the workers share one permit stream: a permit is taken by one worker
\* and takes a tick out of rateLimiter.C, and the image fetches started by all
\* workers together never outnumber the permits taken so far.
C16_SharedPermitStream ==
    /\ [](ImageFetches <= PermitsTaken)
    /\ [][(PermitsTaken' # PermitsTaken) =>
            (/\ PermitsTaken' = PermitsTaken + 1
             /\ rateLimiterC' = rateLimiterC - 1)]_vars

\* Both workers have fetched an image and every permit taken has been used.
C16_Witness ==
    /\ batch = 2
    /\ \A c \in InBatch : Entries(c, {"GetCover", "Get"}) # {}
    /\ ImageFetches = PermitsTaken

\* The page fetches made for chapter c, in order: the URL (its position in
\* the page list) and the Index the image is tagged with.
RECURSIVE PageFetchesFrom(_, _)
PageFetchesFrom(c, i) ==
    IF i > Len(log[c]) THEN << >>
    ELSE (IF log[c][i].op = "Get" THEN << << log[c][i].url, log[c][i].n >> >> ELSE << >>)
         \o PageFetchesFrom(c, i + 1)
PageFetches(c) == PageFetchesFrom(c, 1)

\* C17: when every call succeeds, no cover URL is offered and every chapter
\* has pages, DownloadManga has fetched each page URL of each chapter once, in
\* list order, the i-th tagged Index i (from 0); the fetches number the sum
\* of the page counts, every chapter is materialized with a path and the
\* status is "completed".
C17_EveryPageFetchedOnce ==
    (result = "nil" /\ \A c \in InBatch : total[c] >= 1) =>
        /\ \A c \in InBatch :
              /\ PageFetches(c) = [i \in 1 .. total[c] |-> << i, i - 1 >>]
              /\ chapter[c].Downloaded /\ chapter[c].FilePath # NoPath
              /\ repoChapter[c] = chapter[c]
        /\ ImageFetches = Sum(total, InBatch)
        /\ mangaStatus = "completed" /\ repoStatus = "completed"

\* Two chapters of three pages: six fetches, "completed".
C17_Witness ==
    /\ result = "nil"
    /\ batch = 2
    /\ \A c \in InBatch : total[c] = 3 /\ chapter[c].Downloaded
    /\ ImageFetches = 6
    /\ repoStatus = "completed"

\* ------------------------------------------------ claims on the events
Terminal(ev) == ev.Status \in {"complete", "error"}

\* The events offered for chapter c are in order: a terminal event is the
\* last one, after "processing" come no "downloading" and no second
\* "processing", and CurrentPage does not decrease from one "downloading"
\* event to the next.
EventsOrdered(c) ==
    LET evs == offered[c] IN
    \A i \in 1 .. Len(evs) :
        /\ Terminal(evs[i]) => i = Len(evs)
        /\ evs[i].Status = "processing" =>
              \A j \in 1 .. i - 1 : evs[j].Status = "downloading"
        /\ evs[i].Status = "downloading" =>
              \A j \in 1 .. i - 1 :
                  /\ evs[j].Status = "downloading"
                  /\ evs[j].CurrentPage <= evs[i].CurrentPage

\* C18, as claimed: the events of a chapter are "downloading" events with
\* non-decreasing CurrentPage, then one "processing" event, then the terminal
\* event, after which nothing is offered for the chapter.
C18_EventsInClaimedOrder ==
    \A c \in Chapters :
        /\ EventsOrdered(c)
        /\ \A i \in 1 .. Len(offered[c]) :
              Terminal(offered[c][i]) =>
                  (i > 1 /\ offered[c][i - 1].Status = "processing")

\* C18, amended: the events of a chapter are "downloading" events with
\* non-decreasing CurrentPage, then at most one "processing" event, then the
\* terminal event, after which nothing is offered; "complete" always follows
\* the "processing" event, "error" follows whatever was offered last.
C18_EventsOrderedPerChapter ==
    \A c \in Chapters :
        /\ EventsOrdered(c)
        /\ \A i \in 1 .. Len(offered[c]) :
              offered[c][i].Status = "complete" =>
                  (i > 1 /\ offered[c][i - 1].Status = "processing")

\* Of two chapters one ended with "complete" after "processing" and the other
\* with "error" straight after a "downloading" event.
C18_Witness ==
    /\ batch = 2
    /\ \A c \in InBatch : pc[c] = "done"
    /\ \E c \in InBatch :
          /\ Len(offered[c]) >= 4
          /\ offered[c][Len(offered[c])].Status = "complete"
    /\ \E c \in InBatch :
          /\ Len(offered[c]) >= 2
          /\ offered[c][Len(offered[c])].Status = "error"
          /\ offered[c][Len(offered[c]) - 1].Status = "downloading"

\* C19: when the "downloading" event of page k (CurrentPage = k >= 1) is
\* offered, pages 1..k of the chapter have been fetched.
C19_PageEventAfterFetch ==
    \A c \in Chapters :
        offered[c] # << >> =>
            LET ev == offered[c][Len(offered[c])] IN
            (ev.Status = "downloading" /\ ev.CurrentPage >= 1) =>
                Len(Fetched(c)) >= ev.CurrentPage

\* C20: a DownloadChapter invocation that got past the nil checks and is over
\* (it returned to its caller, or the goroutine DownloadManga started for it
\* is done) has offered its terminal event last: "complete" when it
\* succeeded, "error" when it failed.
C20_TerminalEventAttempted ==
    \A c \in Chapters :
        (pc[c] \in {"returned", "done"} /\ ~NilCall(c)) =>
            /\ offered[c] # << >>
            /\ offered[c][Len(offered[c])].Status =
                   IF failed[c] THEN "error" ELSE "complete"

\* The number of events of chapter c offered with one of the statuses.
Count(c, statuses) ==
    Cardinality({i \in 1 .. Len(offered[c]) : offered[c][i].Status \in statuses})

\* C21: in a DownloadManga batch never both "complete" and "error" are
\* offered for a chapter; a chapter whose goroutine is done has had exactly
\* one of them offered, "error" exactly when its DownloadChapter returned an
\* error; so when DownloadManga returns the "complete" events offered number
\* the chapters that succeeded.
C21_ExactlyOneTerminalEvent ==
    /\ \A c \in Chapters : Count(c, {"complete", "error"}) <= 1
    /\ \A c \in InBatch :
          pc[c] = "done" =>
              /\ Count(c, {"complete", "error"}) = 1
              /\ Count(c, {"error"}) = 1 <=> failed[c]
    /\ result = "nil" =>
          Sum([c \in Chapters |-> Count(c, {"complete"})], InBatch)
              = Cardinality(InBatch \ FailedChapters)

\* DownloadManga has returned from a batch of two chapters of which one
\* failed: one "complete" and one "error" event were offered.
C21_Witness ==
    /\ result = "nil"
    /\ batch = 2
    /\ Cardinality(FailedChapters) = 1
    /\ Sum([c \in Chapters |-> Count(c, {"complete"})], InBatch) = 1
    /\ Sum([c \in Chapters |-> Count(c, {"error"})], InBatch) = 1

\* An event with the status has been offered for chapter c.
Offered(c, status) == Count(c, {status}) > 0

\* C22: DownloadChapter goes in the order: all pages fetched and fed to the
\* builder, "processing" event, builder.Done, UpdateChapterStatus, "complete"
\* event; "complete" is offered only once the repository holds the chapter as
\* downloaded with its container path.
C22_StepsInOrder ==
    \A c \in Chapters :
        /\ Offered(c, "processing") =>
              /\ total[c] >= 1
              /\ Fetched(c) = [i \in 1 .. total[c] |-> i - 1]
              /\ Cardinality(Entries(c, {"Next"})) = total[c]
              /\ Failures(c, {"Get", "Next"}) = {}
        /\ Entries(c, {"Done"}) # {} => Offered(c, "processing")
        /\ \A i \in Entries(c, {"UpdateChapterStatus"}) :
              \E j \in Entries(c, {"Done"}) : j < i /\ log[c][j].ok
        /\ Offered(c, "complete") =>
              /\ Entries(c, {"UpdateChapterStatus"}) # {}
              /\ Failures(c, {"UpdateChapterStatus"}) = {}
              /\ repoChapter[c] = ChapterRecord(TRUE, EpubPath(c))

\* "complete" has been offered for a chapter of two pages the repository
\* holds as downloaded.
C22_Witness ==
    \E c \in Chapters :
        /\ pc[c] = "returned"
        /\ total[c] = 2
        /\ Offered(c, "complete")
        /\ repoChapter[c].Downloaded

\* C23: Next, Done, SetMangaCover and SetChapterCover return an error when no
\* Init has succeeded, or none since the last successful Done; and Done
\* returns an error on an initialized builder that holds no page.
FeedOrCover ==
    \/ \E kind \in ImageKinds, index \in 0 .. MaxImages : EPubNext(kind, index)
    \/ \E empty \in BOOLEAN : EPubSetMangaCover(empty)
    \/ \E empty \in BOOLEAN : EPubSetChapterCover(empty)

C23_UsageErrors ==
    [][(\/ ~builder.open /\ (FeedOrCover \/ EPubDone)
        \/ builder.open /\ builder.images = << >> /\ EPubDone)
       => (~returned'.ok /\ container' = << >>)]_vars

\* Done was called on an initialized builder before any page was accepted.
C23_Witness ==
    /\ returned = Return("Done", FALSE, << >>)
    /\ builder.open
    /\ builder.images = << >>

\* C24: after a successful Done the builder holds nothing and is
\* uninitialized; what it holds in a session was accepted in that session,
\* and a written container holds the pages and covers of its session only.
SessionOf(content) == content[2]

OfSession(held, session) ==
    /\ \A i \in 1 .. Len(held.images) : SessionOf(held.images[i].Content) = session
    /\ \A i \in 1 .. Len(held.mangaCover) :
          SessionOf(held.mangaCover[i].Content) = session
    /\ \A i \in 1 .. Len(held.chapterCover) :
          SessionOf(held.chapterCover[i].Content) = session

C24_FreshReuse ==
    /\ (returned.op = "Done" /\ returned.ok) =>
          /\ ~builder.open
          /\ [f \in {"epub", "manga", "chapter", "images", "mangaCover", "chapterCover"}
                |-> builder[f]] =
             [f \in {"epub", "manga", "chapter", "images", "mangaCover", "chapterCover"}
                |-> << >>]
    /\ builder.open => OfSession(builder, builder.epub[1])
    /\ ~builder.open =>
          builder.images = << >> /\ builder.mangaCover = << >>
                                /\ builder.chapterCover = << >>
    /\ \A i \in 1 .. Len(container) :
          /\ \A j \in 1 .. Len(container[i].pages) :
                SessionOf(container[i].pages[j].Content) = container[i].epub[1]
          /\ \A j \in 1 .. Len(container[i].cover) :
                SessionOf(container[i].cover[j]) = container[i].epub[1]
          /\ {container[i].pages[j].Content : j \in 1 .. Len(container[i].pages)}
               \subseteq {container[i].fed[j].Content : j \in 1 .. Len(container[i].fed)}
                          \cup {container[i].chapterCover[j].Content :
                                   j \in 1 .. Len(container[i].chapterCover)}

\* The builder wrote a second container, with a cover, after its first.
C24_Witness ==
    /\ builder.written = 2
    /\ container # << >>
    /\ container[1].epub = << 2 >>
    /\ container[1].cover # << >>
    /\ Len(container[1].pages) = 2

\* C25: the pages of a container whose images had distinct indexes are those
\* images, each once, in increasing order of Index, behind the chapter cover
\* if there is one.
IsCover(p) == p.Path[1] = "chapter_cover"
Body(pages) == SelectSeq(pages, LAMBDA p : ~IsCover(p))
DistinctIndexes(images) ==
    \A i, j \in 1 .. Len(images) : i # j => images[i].Index # images[j].Index

C25_PagesSortedByIndex ==
    \A k \in 1 .. Len(container) :
      LET c == container[k]
          body == Body(c.pages)
      IN  DistinctIndexes(c.fed) =>
            /\ Len(body) = Len(c.fed)
            /\ {<< body[i].Path[2], body[i].Content >> : i \in 1 .. Len(body)}
                 = {<< c.fed[i].Index, c.fed[i].Content >> : i \in 1 .. Len(c.fed)}
            /\ \A i, j \in 1 .. Len(body) : i < j => body[i].Path[2] < body[j].Path[2]
            /\ \A i \in 1 .. Len(c.pages) : IsCover(c.pages[i]) => i = 1
            /\ \A i \in 1 .. Len(c.pages) :
                  IsCover(c.pages[i]) =>
                    c.chapterCover # << >> /\ c.pages[i].Content = c.chapterCover[1].Content

\* Two images fed in decreasing order of Index, written behind the cover.
C25_Witness ==
    /\ container # << >>
    /\ Len(container[1].fed) = 2
    /\ container[1].fed[1].Index > container[1].fed[2].Index
    /\ Len(container[1].pages) = 3
    /\ IsCover(container[1].pages[1])

\* C26: the title of the section is "Chapter {n}", with "Vol. {v}, " before
\* it exactly when the volume is neither empty nor "0", and ": {t}" after it
\* exactly when the chapter has a title.
C26_TitleFormat ==
    \A k \in 1 .. Len(container) :
      LET ch == container[k].chapter
          hasVolume == ch.Volume # << >> /\ ch.Volume # << "0" >>
          hasTitle == ch.Title # << >>
      IN  container[k].title =
            (IF hasVolume THEN << "Vol. " >> \o ch.Volume \o << ", " >> ELSE << >>)
            \o << "Chapter " >> \o ch.Number
            \o (IF hasTitle THEN << ": " >> \o ch.Title ELSE << >>)

\* A container was written for a chapter of volume "0" that has a title.
C26_Witness ==
    /\ container # << >>
    /\ container[1].chapter.Volume = << "0" >>
    /\ container[1].chapter.Title = << "T" >>
    /\ container[1].title = << "Chapter ", "1", ": ", "T" >>

\* C27: what sanitizeFilename returns holds none of / \ : * ? " < > | and
\* neither begins nor ends with white space or a dot.
Ends(str) == IF str = << >> THEN {} ELSE {str[1], str[Len(str)]}

C27_SanitizedName ==
    (calc.fn = "sanitizeFilename" /\ calc.done) =>
        /\ \A i \in 1 .. Len(calc.result) : calc.result[i] \notin InvalidChars
        /\ Ends(calc.result) \cap (WhiteSpace \cup {"."}) = {}

\* C28: no two chapters of a batch are given the same container path.
C28_DistinctOutputPaths ==
    \A c, d \in Chapters :
        (c # d /\ chapter[c].Downloaded /\ chapter[d].Downloaded) =>
            chapter[c].FilePath # chapter[d].FilePath

\* C29: calculateDimensions returns the source size when it fits; otherwise
\* a size within the bounds of which the width or the height is its bound.
C29_FitsOneBoundExactly ==
    (calc.fn = "calculateDimensions" /\ calc.done) =>
        LET settings == calc.args[1]
            width == calc.args[2]
            height == calc.args[3]
        IN  IF width <= settings.MaxWidth /\ height <= settings.MaxHeight
              THEN calc.result = << width, height >>
              ELSE /\ calc.result[1] <= settings.MaxWidth
                   /\ calc.result[2] <= settings.MaxHeight
                   /\ \/ calc.result[1] = settings.MaxWidth
                      \/ calc.result[2] = settings.MaxHeight

\* C30: adjustChannel(v, factor) is 128 + (v - 128) * factor cut to 0 .. 255,
\* the difference being signed; a value below 128 stays at or below 128 for
\* a factor of 1 or more.
C30_SignedContrast ==
    (calc.fn = "adjustChannel" /\ calc.done) =>
        LET value == calc.args[1]
            quarters == calc.args[2]
            signed == (value - 128) * quarters + 128 * 4
        IN  /\ calc.result[1] =
                 IF signed < 0 THEN 0
                 ELSE IF signed > 255 * 4 THEN 255
                 ELSE signed \div 4
            /\ (value < 128 /\ quarters >= 4) => calc.result[1] <= 128

\* C36: no event is sent on the progress channel once Close has closed it:
\* the panic of a send on a closed channel does not happen.
C36_NoSendOnClosedChannel == ~panicked

\* C37: when DownloadManga has returned for a series, the persisted status is
\* "downloading" only if it was before the call.
SavedByCall ==
    (IF savedDownloading THEN 1 ELSE 0)
    + (IF finalSave # << >> /\ finalSave[2] THEN 1 ELSE 0)

StatusBeforeCall ==
    IF Len(repoLog) = SavedByCall THEN "absent"
    ELSE repoLog[Len(repoLog) - SavedByCall]

C37_NotLeftDownloading ==
    (calls > 0 /\ pcMain = "idle" /\ result # "none" /\ repoStatus = "downloading")
        => StatusBeforeCall = "downloading"

\* C40: calculateDimensions returns a width and a height of at least 1 for a
\* source and bounds of at least 1 each way.
C40_NeverZeroSized ==
    (calc.fn = "calculateDimensions" /\ calc.done) =>
        (calc.result[1] >= 1 /\ calc.result[2] >= 1)

\* C38: a temporary directory of the builder exists only while its session
\* lasts: none after Done has returned, and none but the one the builder
\* holds at any time.
C38_ScratchRemoved ==
    /\ returned.op = "Done" => scratch = {}
    /\ \A dir \in scratch : builder.open /\ builder.tempDir = << dir >>

\* C39: a call of Next, SetMangaCover or SetChapterCover that returns an
\* error changes neither the images nor the covers of the builder.
C39_RejectedCallChangesNothing ==
    [][(returned'.op \in {"Next", "SetMangaCover", "SetChapterCover"}
        /\ ~returned'.ok)
       => /\ builder'.images = builder.images
          /\ builder'.mangaCover = builder.mangaCover
          /\ builder'.chapterCover = builder.chapterCover]_vars

\* Next has refused an image on a builder that holds a page and a cover.
C39_Witness ==
    /\ returned = Return("Next", FALSE, << >>)
    /\ builder.open
    /\ Len(builder.images) = 1
    /\ builder.mangaCover # << >>

\* C31: sharpen keeps the size of the image and the pixels of its outermost
\* ring, and sets every other pixel to nine times the input pixel less its
\* eight neighbours, cut to 0 .. 255.
C31_SharpenKernel ==
    (calc.fn = "sharpen" /\ calc.done) =>
        LET in == calc.args[1]
            out == calc.result[1]
        IN  /\ out.w = in.w /\ out.h = in.h
            /\ DOMAIN out.px = DOMAIN in.px
            /\ \A x \in 1 .. in.w, y \in 1 .. in.h :
                  IF x = 1 \/ x = in.w \/ y = 1 \/ y = in.h
                    THEN out.px[<< x, y >>] = in.px[<< x, y >>]
                    ELSE LET sum == 9 * in.px[<< x, y >>]
                                    - in.px[<< x - 1, y - 1 >>] - in.px[<< x, y - 1 >>]
                                    - in.px[<< x + 1, y - 1 >>] - in.px[<< x - 1, y >>]
                                    - in.px[<< x + 1, y >>] - in.px[<< x - 1, y + 1 >>]
                                    - in.px[<< x, y + 1 >>] - in.px[<< x + 1, y + 1 >>]
                         IN  out.px[<< x, y >>] =
                               IF sum < 0 THEN 0 ELSE IF sum > 255 THEN 255 ELSE sum

\* A 3 by 3 image was sharpened whose centre came out changed and uncut.
C31_Witness ==
    /\ calc.fn = "sharpen" /\ calc.done
    /\ calc.args[1].w = 3 /\ calc.args[1].h = 3
    /\ calc.result[1].px[<< 2, 2 >>] # calc.args[1].px[<< 2, 2 >>]
    /\ calc.result[1].px[<< 2, 2 >>] \notin {0, 255}
    /\ calc.result[1].px[<< 1, 1 >>] = calc.args[1].px[<< 1, 1 >>]

\* The call of ConvertChapters that has returned, its arguments and result.
Exported == calc.fn = "ConvertChapters" /\ calc.done
ExportedChapters == calc.args[1]
ExportedFormat == calc.args[2]
ExportResult == calc.result[1]

\* The names of the files of a container that reach the export, in page
\* order.
InPageOrder(files) ==
    LET kept == SelectSeq(files, LAMBDA f : f.decodes)
        sorted == SortSeq(kept, LAMBDA a, b : a.Filename < b.Filename)
    IN  [i \in 1 .. Len(sorted) |-> sorted[i].Filename]

\* The pages the claim expects of the chapters from the i-th on: for the
\* chapter of index c its pages in page order, page p under c * 1000 + p.
RECURSIVE ExpectedPages(_, _)
ExpectedPages(chapters, i) ==
    IF i > Len(chapters) THEN << >>
    ELSE LET names == InPageOrder(chapters[i])
         IN  [p \in 1 .. Len(names) |->
                [ordinal |-> (i - 1) * 1000 + (p - 1),
                 image |-> << i - 1, names[p] >>]]
             \o ExpectedPages(chapters, i + 1)

\* The pages of the written container: the ordinal in the name of each and
\* the image it holds.
WrittenPages ==
    [k \in 1 .. Len(ExportResult.pages) |->
       [ordinal |-> ExportResult.pages[k].Path[2],
        image |-> ExportResult.pages[k].Content]]

OrdinalsInOrder ==
    LET expected == ExpectedPages(ExportedChapters, 1)
    IN  IF expected = << >> THEN ~ExportResult.ok
        ELSE ExportResult.ok /\ WrittenPages = expected

\* C32 (as claimed): for every list of input containers, the export that
\* nothing outside it fails writes the pages chapter by chapter in page
\* order, page p of chapter c under the ordinal c * 1000 + p.
C32_OrdinalsInOrderAnyLength == Exported => OrdinalsInOrder

\* C32 (amended): the same for every list of input containers of at most
\* 1000 pages each.
C32_OrdinalsInOrder ==
    (Exported /\ \A i \in 1 .. Len(ExportedChapters) :
                    Len(ExportedChapters[i]) <= 1000)
      => OrdinalsInOrder

\* A container of 1000 pages, listed against their order, and one of three
\* pages were exported: page index 2 of chapter index 1 stands last, under
\* the ordinal 1002.
C32_Witness ==
    /\ Exported /\ ExportResult.ok
    /\ Len(ExportedChapters) = 2
    /\ Len(ExportedChapters[1]) = 1000
    /\ ExportedChapters[1][1].Filename = 1000
    /\ Len(ExportResult.pages) = 1003
    /\ ExportResult.pages[1003].Path[2] = 1002
    /\ ExportResult.pages[1003].Content = << 1, 3 >>

\* The conversion was attempted and ebook-convert failed.
CalibreFailed ==
    /\ Exported
    /\ ExportResult.tried # << >>
    /\ ExportResult.tried[1] = Run("ebook-convert", FALSE)

C34_PathKeptWhenNoConverter ==
    (Exported /\ ExportResult.tried # << >>
       /\ \A i \in 1 .. Len(ExportResult.tried) : ~ExportResult.tried[i].ok)
      => /\ ~ExportResult.ok
         /\ ExportResult.path = ExportResult.epubPath

\* C35: when ConvertChapters returns success, every page image file of every
\* input container is in the written container.
C35_NoPageSilentlyMissing ==
    (Exported /\ ExportResult.ok) =>
      \A i \in 1 .. Len(ExportedChapters) :
        \A j \in 1 .. Len(ExportedChapters[i]) :
          \E k \in 1 .. Len(ExportResult.pages) :
            ExportResult.pages[k].Content
              = << i - 1, ExportedChapters[i][j].Filename >>

====
